---- MODULE Spec2Model ----
(***************************************************************************)
(* A model of the ranking and playlist pipeline of AutoYT-Playlist:        *)
(*   backend/app/services/ranking_engine.py      WeightedRanker,           *)
(*                                               XGBoostRanker, MLRanker,  *)
(*                                               RankingEnsemble           *)
(*   backend/app/services/playlist_generator.py  PlaylistGenerator         *)
(*   backend/app/services/relevance_scorer.py    RelevanceScorer           *)
(*   backend/app/services/youtube_service.py     YouTubeService            *)
(*   backend/app/services/query_generator.py     QueryGenerator            *)
(*   backend/app/core/redis_client.py            RedisClient               *)
(*   backend/app/models/schemas.py               RankingWeights            *)
(*   backend/app/api/routes/playlists.py         generate_playlist route   *)
(*                                                                         *)
(* Numbers.  Python floats are modelled in fixed point:                    *)
(*   - a weight is an integer number of hundredths (0.15 is 15);           *)
(*   - a normalised metric, a relevance, a recency, a penalty is an        *)
(*     integer number of thousandths (0.5 is 500);                         *)
(*   - a composite score is their product, in units of 1e-5.               *)
(* math.log and math.exp are tabulated on the values the model draws.      *)
(* Dates are day numbers; a timedelta's .days is their difference.         *)
(*                                                                         *)
(* A call that can raise returns an outcome record: [ok |-> TRUE, val |->  *)
(* v] or [ok |-> FALSE, err |-> name of the exception].                    *)
(***************************************************************************)
EXTENDS Integers, Sequences, FiniteSets, TLC

VARIABLES
    now,               \* datetime.utcnow(), as a day number
    videos,            \* the candidate list handed to a ranker / deduplicator
    relevance_scores,  \* the relevance list handed to a ranker
    call,              \* the call made on the ranking harness, with its configuration
    out,               \* what that call returned (an outcome record)
    topics,            \* generate_playlist: the topics argument
    videos_per_topic,  \* generate_playlist: the videos_per_topic argument
    ranker,            \* generate_playlist: the RankingEnsemble built at line 50
    idx,               \* generate_playlist: topics the for loop has gone through
    playlist_items,    \* generate_playlist: the local playlist_items
    total_duration,    \* generate_playlist: the local total_duration
    pc,                \* generate_playlist: "idle", "running", "done" or "raised"
    result,            \* generate_playlist: the outcome of the call
    item_owner,        \* history: for each playlist item, the index of its topic
    dedup_count,       \* history: for each topic gone through, its deduplicated candidates
    invoked,           \* history: for each topic gone through, the collaborators it invoked
    request_weights,   \* POST /generate-playlist: the "weights" object of the body
    validation,        \* POST /generate-playlist: the outcome of RankingWeights validation
    responses,         \* what the collaborators answer, topic by topic, to a generate_playlist call
    earlier,           \* the outcome of an earlier call on the same arguments
    input,             \* the arguments of a call of one of the pure functions
    redis,             \* the cache: key -> stored value
    quota_used,        \* YouTubeService.quota_used
    last_request_time, \* YouTubeService.last_request_time, in tenths of a second
    clock,             \* time.time(), in tenths of a second
    callers,           \* for each thread using the service, where it is in _rate_limit
    requests           \* history: the API requests let through, with their times

harness_vars == <<videos, relevance_scores, call, out>>

playlist_vars == <<topics, videos_per_topic, ranker, idx, playlist_items, total_duration,
                   pc, result, item_owner, dedup_count, invoked>>

route_vars == <<request_weights, validation>>

call_vars == <<responses, earlier>>

search_vars == <<redis, quota_used, last_request_time, clock>>

limit_vars == <<callers, requests>>

ext_vars == <<call_vars, input, search_vars, limit_vars>>

vars == <<now, harness_vars, playlist_vars, route_vars, ext_vars>>

----------------------------------------------------------------------------
(* Bounds of the model *)

\* longest candidate list handed to a ranker
MaxVideos == 3

\* longest list handed to the deduplicator
MaxDedup == 4

\* most topics handed to generate_playlist
MaxTopics == 2


----------------------------------------------------------------------------
(* Generic helpers *)

Min2(a, b) == IF a <= b THEN a ELSE b

Max2(a, b) == IF a >= b THEN a ELSE b

RECURSIVE SeqMax(_)
SeqMax(s) == IF Len(s) = 1 THEN s[1] ELSE Max2(s[1], SeqMax(Tail(s)))

RECURSIVE SeqMin(_)
SeqMin(s) == IF Len(s) = 1 THEN s[1] ELSE Min2(s[1], SeqMin(Tail(s)))

\* all sequences over S of length 0..n
SeqsUpTo(S, n) == UNION {[1..k -> S] : k \in 0..n}

Ok(v) == [ok |-> TRUE, val |-> v]

Raise(e) == [ok |-> FALSE, err |-> e]

\* Python's None for an optional argument
None == [none |-> TRUE]

IsNone(x) == "none" \in DOMAIN x

----------------------------------------------------------------------------
(* Candidates: the dictionaries YouTubeService._parse_video_item builds.   *)
(* Only the fields the ranking core reads are kept.                        *)

VideoX == [youtube_id |-> "X", views |-> 1000000, likes |-> 50000, subscribers |-> 1000,
           duration |-> 600, upload_date |-> 730]

VideoY == [youtube_id |-> "Y", views |-> 1000, likes |-> 10, subscribers |-> 1000,
           duration |-> 600, upload_date |-> 730]

\* same metrics as VideoY under another identifier: equal composite scores
VideoZ == [youtube_id |-> "Z", views |-> 1000, likes |-> 10, subscribers |-> 1000,
           duration |-> 600, upload_date |-> 730]

\* no engagement at all, one hour long, one year old
VideoW == [youtube_id |-> "W", views |-> 0, likes |-> 0, subscribers |-> 0,
           duration |-> 3600, upload_date |-> 365]

VideoPool == {VideoX, VideoY, VideoZ, VideoW}

\* relevance scores a caller may hand in, in thousandths
RelValues == {300, 900}

----------------------------------------------------------------------------
(* math.log and math.exp on the values drawn, in thousandths *)

LnMilli(v) ==
    CASE v = 1       -> 0
      [] v = 10      -> 2303
      [] v = 1000    -> 6908
      [] v = 2000    -> 7601
      [] v = 50000   -> 10820
      [] v = 1000000 -> 13816

\* exp(-days_old / 365)
ExpMilli(days_old) ==
    CASE days_old = 0    -> 1000
      [] days_old = 365  -> 368
      [] days_old = 730  -> 135
      [] days_old = 1095 -> 50
      [] days_old = -365 -> 2718

----------------------------------------------------------------------------
(* WeightedRanker *)

\* settings.WEIGHT_*: the defaults of WeightedRanker.__init__
DefaultWeights == [views |-> 15, likes |-> 20, subscribers |-> 10,
                   relevance |-> 40, recency |-> 10, duration_penalty |-> 5]

\* WeightedRanker.__init__: self.weights = weights or {defaults}
WeightedRankerInit(weights) == IF IsNone(weights) THEN DefaultWeights ELSE weights

\* a _normalize_log without the branch for equal log values
NormalizeLogNoMidpoint(values) ==
    IF Len(values) = 0 \/ SeqMax(values) = 0
    THEN [i \in 1..Len(values) |-> 0]
    ELSE LET log_values == [i \in 1..Len(values) |-> LnMilli(Max2(values[i], 1))]
             min_val == SeqMin(log_values)
             max_val == SeqMax(log_values)
         IN  [i \in 1..Len(values) |->
                 ((log_values[i] - min_val) * 1000) \div Max2(max_val - min_val, 1)]

\* WeightedRanker._normalize_log
NormalizeLog(values) ==
    IF Len(values) = 0 \/ SeqMax(values) = 0
    THEN [i \in 1..Len(values) |-> 0]
    ELSE LET log_values == [i \in 1..Len(values) |-> LnMilli(Max2(values[i], 1))]
             min_val == SeqMin(log_values)
             max_val == SeqMax(log_values)
         IN  IF max_val = min_val
             THEN [i \in 1..Len(values) |-> 500]
             ELSE [i \in 1..Len(values) |->
                      ((log_values[i] - min_val) * 1000) \div (max_val - min_val)]

\* WeightedRanker._compute_recency
ComputeRecency(upload_date, utcnow) == ExpMilli(utcnow - upload_date)

IdealMin == 300

IdealMax == 1200

MaxHour == 3600

\* a penalty that does not grow with the distance from the ideal band
ComputeDurationPenaltyFlat(duration) ==
    IF IdealMin <= duration /\ duration <= IdealMax THEN 0 ELSE 1000

\* WeightedRanker._compute_duration_penalty, in thousandths
ComputeDurationPenalty(duration) ==
    IF IdealMin <= duration /\ duration <= IdealMax
    THEN 0
    ELSE IF duration < IdealMin
         THEN Min2(((IdealMin - duration) * 1000) \div IdealMin, 1000)
         ELSE Min2(((duration - IdealMax) * 1000) \div (MaxHour - IdealMax), 1000)

RECURSIVE InsertDesc(_, _, _)

\* a sort that puts an element in front of the elements with an equal key
InsertDescUnstable(sorted, x, key) ==
    IF sorted = <<>>
    THEN <<x>>
    ELSE IF Head(sorted)[key] > x[key]
         THEN <<Head(sorted)>> \o InsertDesc(Tail(sorted), x, key)
         ELSE <<x>> \o sorted

\* list.sort(key=..., reverse=True) keeps the input order of elements with equal
\* keys: an element goes behind every element whose key is at least its own
InsertDesc(sorted, x, key) ==
    IF sorted = <<>>
    THEN <<x>>
    ELSE IF Head(sorted)[key] >= x[key]
         THEN <<Head(sorted)>> \o InsertDesc(Tail(sorted), x, key)
         ELSE <<x>> \o sorted

RECURSIVE SortDescFrom(_, _, _)
SortDescFrom(sorted, rest, key) ==
    IF rest = <<>>
    THEN sorted
    ELSE SortDescFrom(InsertDesc(sorted, Head(rest), key), Tail(rest), key)

\* ranked_videos.sort(key=lambda x: x['score'], reverse=True) and
\* sorted(videos, key=lambda x: x['ml_score'], reverse=True)
SortDesc(items, key) == SortDescFrom(<<>>, items, key)

\* a composite score with the sign of every term reversed
CompositeScoreInverted(w, i, views_norm, likes_norm, subs_norm, rel, recency, penalties) ==
      w.duration_penalty * penalties[i]
    - w.views * views_norm[i]
    - w.likes * likes_norm[i]
    - w.subscribers * subs_norm[i]
    - w.relevance * rel[i]
    - w.recency * recency[i]

\* the composite score of candidate i (lines 55-62)
CompositeScore(w, i, views_norm, likes_norm, subs_norm, rel, recency, penalties) ==
      w.views * views_norm[i]
    + w.likes * likes_norm[i]
    + w.subscribers * subs_norm[i]
    + w.relevance * rel[i]
    + w.recency * recency[i]
    - w.duration_penalty * penalties[i]

\* a WeightedRanker.rank_videos that pairs candidate i with the relevance score of
\* the mirrored position
WeightedRankerRankVideosMispaired(w, vs, rel, utcnow) ==
    IF Len(vs) = 0
    THEN Ok(<<>>)
    ELSE IF Len(rel) < Len(vs)
         THEN Raise("IndexError")
         ELSE LET n == Len(vs)
                  views_norm == NormalizeLog([i \in 1..n |-> vs[i].views])
                  likes_norm == NormalizeLog([i \in 1..n |-> vs[i].likes])
                  subs_norm == NormalizeLog([i \in 1..n |-> vs[i].subscribers])
                  recency_scores == [i \in 1..n |-> ComputeRecency(vs[i].upload_date, utcnow)]
                  duration_penalties == [i \in 1..n |-> ComputeDurationPenalty(vs[i].duration)]
                  ranked_videos ==
                      [i \in 1..n |->
                          [score |-> CompositeScore(w, i, views_norm, likes_norm, subs_norm,
                                                    rel, recency_scores, duration_penalties),
                           relevance_score |-> rel[n + 1 - i]] @@ vs[i]]
              IN  Ok(SortDesc(ranked_videos, "score"))
\* WeightedRanker.rank_videos with self.weights = w
WeightedRankerRankVideos(w, vs, rel, utcnow) ==
    IF Len(vs) = 0
    THEN Ok(<<>>)
    ELSE IF Len(rel) < Len(vs)
         THEN Raise("IndexError")    \* relevance_scores[i]
         ELSE LET n == Len(vs)
                  views_norm == NormalizeLog([i \in 1..n |-> vs[i].views])
                  likes_norm == NormalizeLog([i \in 1..n |-> vs[i].likes])
                  subs_norm == NormalizeLog([i \in 1..n |-> vs[i].subscribers])
                  recency_scores == [i \in 1..n |-> ComputeRecency(vs[i].upload_date, utcnow)]
                  duration_penalties == [i \in 1..n |-> ComputeDurationPenalty(vs[i].duration)]
                  ranked_videos ==
                      [i \in 1..n |->
                          [score |-> CompositeScore(w, i, views_norm, likes_norm, subs_norm,
                                                    rel, recency_scores, duration_penalties),
                           relevance_score |-> rel[i]] @@ vs[i]]
              IN  Ok(SortDesc(ranked_videos, "score"))

----------------------------------------------------------------------------
(* XGBoostRanker and MLRanker *)

\* the artifact at MLRanker.model_path when the ranker is constructed
ModelFiles == {"absent", "corrupt", "valid"}

\* what model.predict does on a non-empty feature matrix
Inferences == {"ok", "raises"}

\* the score vectors model.predict may return for n rows
PredictOutputs(n) == {[i \in 1..n |-> i], [i \in 1..n |-> n - i], [i \in 1..n |-> 0]}

\* XGBoostRanker.rank: `scores` is what self.model.predict returns
XGBoostRankerRank(vs, inference, scores) ==
    IF Len(vs) = 0
    THEN Ok(<<>>)
    ELSE IF inference = "raises"
         THEN Raise("XGBoostError")
         ELSE Ok(SortDesc([i \in 1..Len(vs) |-> [ml_score |-> scores[i]] @@ vs[i]],
                          "ml_score"))

\* MLRanker.__init__: the model is loaded only from a readable artifact; the
\* fallback ranker is WeightedRanker() with no weights passed
MLRankerInit(model_file) ==
    [model |-> (model_file = "valid"), fallback_ranker |-> WeightedRankerInit(None)]

\* the copy of a candidate MLRanker.rank_videos hands to the model (lines 227-253)
ProcessedVideo(video, relevance, utcnow) ==
    LET v1 == [relevance |-> relevance] @@ video
        v2 == IF "like_ratio" \in DOMAIN v1
              THEN v1
              ELSE v1 @@ [like_ratio |-> (v1.likes * 1000) \div Max2(v1.views, 1)]
        v3 == IF "days_old" \in DOMAIN v2
              THEN v2
              ELSE v2 @@ [days_old |-> utcnow - v2.upload_date]
        v4 == IF "recency_score" \in DOMAIN v3
              THEN v3
              ELSE v3 @@ [recency_score |-> (1000 * 365) \div (365 + v3.days_old)]
    IN  IF "duration_penalty" \in DOMAIN v4
        THEN v4
        ELSE v4 @@ [duration_penalty |->
                       IF 600 <= v4.duration /\ v4.duration <= 1800 THEN 1000 ELSE 500]

\* the outcome of the try block of MLRanker.rank_videos (lines 224-255)
MLRankerTry(vs, rel, utcnow, inference, scores) ==
    IF Len(rel) < Len(vs)
    THEN Raise("IndexError")    \* relevance_scores[i]
    ELSE XGBoostRankerRank([i \in 1..Len(vs) |-> ProcessedVideo(vs[i], rel[i], utcnow)],
                           inference, scores)

\* an MLRanker.rank_videos whose except clause re-raises
MLRankerRankVideosNoFallback(ml, vs, rel, utcnow, inference, scores) ==
    IF ml.model
    THEN MLRankerTry(vs, rel, utcnow, inference, scores)
    ELSE WeightedRankerRankVideos(ml.fallback_ranker, vs, rel, utcnow)

\* MLRanker.rank_videos
MLRankerRankVideos(ml, vs, rel, utcnow, inference, scores) ==
    IF ml.model
    THEN LET tried == MLRankerTry(vs, rel, utcnow, inference, scores)
         IN  IF tried.ok
             THEN tried
             ELSE WeightedRankerRankVideos(ml.fallback_ranker, vs, rel, utcnow)
    ELSE WeightedRankerRankVideos(ml.fallback_ranker, vs, rel, utcnow)

----------------------------------------------------------------------------
(* RankingEnsemble *)

\* RankingEnsemble.__init__; `setting` is settings.USE_ML_RANKING
RankingEnsembleInit(weights, use_ml, model_file, setting) ==
    [weighted_ranker |-> WeightedRankerInit(weights),
     ml_ranker |-> IF use_ml THEN MLRankerInit(model_file) ELSE None,
     use_ml |-> (use_ml /\ setting)]

\* RankingEnsemble.rank_videos
RankingEnsembleRankVideos(ens, vs, rel, utcnow, inference, scores) ==
    IF ens.use_ml /\ ~IsNone(ens.ml_ranker)
    THEN MLRankerRankVideos(ens.ml_ranker, vs, rel, utcnow, inference, scores)
    ELSE WeightedRankerRankVideos(ens.weighted_ranker, vs, rel, utcnow)

----------------------------------------------------------------------------
(* What a rank_videos call writes.  The candidate dicts are mutable objects: *)
(* the caller keeps its list and its dicts, and a ranker that wrote through  *)
(* them would change what the caller holds.                                  *)

\* the dicts of the list handed to XGBoostRanker.rank, after the call: line 177
\* writes ml_score into each of them once predict has answered
XGBoostRankerRankWrites(vs, inference, scores) ==
    IF Len(vs) = 0 \/ inference # "ok"
    THEN vs
    ELSE [i \in 1..Len(vs) |-> [ml_score |-> scores[i]] @@ vs[i]]

\* the dicts the try block of MLRanker.rank_videos has written to when it ends:
\* position i holds what was written for candidate i (the loop stops at the first
\* candidate without a relevance score)
MLRankerTryWrites(vs, rel, utcnow, inference, scores) ==
    LET processed == [i \in 1..Len(vs) |->
                         IF i <= Len(rel)
                         THEN ProcessedVideo(vs[i], rel[i], utcnow)
                         ELSE vs[i]]
    IN  IF Len(rel) < Len(vs)
        THEN processed
        ELSE XGBoostRankerRankWrites(processed, inference, scores)

\* an MLRanker.rank_videos whose v_copy is the caller's dict itself
MLRankerObjectsAliased(ml, vs, rel, utcnow, inference, scores) ==
    LET written == IF ml.model
                   THEN MLRankerTryWrites(vs, rel, utcnow, inference, scores)
                   ELSE vs
    IN  [caller |-> written, v_copy |-> written]

\* the objects after MLRanker.rank_videos: the caller's dicts, and the copies
\* v_copy = video.copy() of line 227, which receive every write of the try block;
\* the fallback ranker builds new dicts of its own (line 64)
MLRankerObjects(ml, vs, rel, utcnow, inference, scores) ==
    [caller |-> vs,
     v_copy |-> IF ml.model
                THEN MLRankerTryWrites(vs, rel, utcnow, inference, scores)
                ELSE <<>>]

\* the caller's candidate list after WeightedRanker.rank_videos: the items are new
\* dicts {**video, ...} appended to the new list ranked_videos, which is the list
\* that is sorted in place
WeightedRankerCallerVideos(w, vs, rel, utcnow) == vs

\* the caller's candidate list after MLRanker.rank_videos
MLRankerCallerVideos(ml, vs, rel, utcnow, inference, scores) ==
    MLRankerObjects(ml, vs, rel, utcnow, inference, scores).caller

\* the caller's candidate list after RankingEnsemble.rank_videos
RankingEnsembleCallerVideos(ens, vs, rel, utcnow, inference, scores) ==
    IF ens.use_ml /\ ~IsNone(ens.ml_ranker)
    THEN MLRankerCallerVideos(ens.ml_ranker, vs, rel, utcnow, inference, scores)
    ELSE WeightedRankerCallerVideos(ens.weighted_ranker, vs, rel, utcnow)

----------------------------------------------------------------------------
(* The ranking harness: one ranker is constructed and called once on the    *)
(* inputs drawn by InitRank.                                                *)

\* settings.USE_ML_RANKING as config.py sets it
USE_ML_RANKING == TRUE

\* a valid configuration other than the defaults
CustomWeights == [views |-> 40, likes |-> 20, subscribers |-> 10,
                  relevance |-> 15, recency |-> 10, duration_penalty |-> 5]

WeightsArgs == {None, CustomWeights}

NowValues == {730}

NoCall == [op |-> "none"]

\* relevance lists for n candidates: one score each, or the last one missing
RelLists(n) == [1..n -> RelValues] \cup (IF n = 0 THEN {} ELSE [1..(n - 1) -> RelValues])

\* YouTubeService.min_request_interval (0.2 s), in tenths of a second
MinRequestInterval == 2

\* the service as __init__ leaves it, at a time when its first request need not
\* wait; no thread is inside _rate_limit
ServiceIdle ==
    /\ quota_used = 0
    /\ last_request_time = 0
    /\ clock = MinRequestInterval
    /\ callers = <<>>
    /\ requests = <<>>

\* no call is replayed, no pure function is called, the cache is empty
ExtIdle ==
    /\ responses = <<>>
    /\ earlier = None
    /\ input = None
    /\ redis = <<>>
    /\ ServiceIdle

\* no request is made on the route
RouteIdle ==
    /\ request_weights = None
    /\ validation = None

\* no generate_playlist call is made
PlaylistIdle ==
    /\ topics = <<>>
    /\ videos_per_topic = 1
    /\ ranker = None
    /\ idx = 0
    /\ playlist_items = <<>>
    /\ total_duration = 0
    /\ pc = "idle"
    /\ result = None
    /\ item_owner = <<>>
    /\ dedup_count = <<>>
    /\ invoked = <<>>

InitRank ==
    /\ PlaylistIdle
    /\ RouteIdle
    /\ ExtIdle
    /\ now \in NowValues
    /\ videos \in SeqsUpTo(VideoPool, MaxVideos)
    /\ relevance_scores \in RelLists(Len(videos))
    /\ call = NoCall
    /\ out = None

\* what the learned model does in one rank_videos call on n candidates; it is
\* reached only when loaded and handed at least one processed candidate
PredictionsFor(reached, n) ==
    IF reached /\ n > 0
    THEN {[inference |-> "raises", scores |-> <<>>]}
         \cup {[inference |-> "ok", scores |-> s] : s \in PredictOutputs(n)}
    ELSE {[inference |-> "none", scores |-> <<>>]}

Predictions(model_file) ==
    PredictionsFor(model_file = "valid" /\ Len(relevance_scores) >= Len(videos),
                   Len(videos))

\* WeightedRanker(weights).rank_videos(videos, relevance_scores)
RankWeighted ==
    /\ call.op = "none"
    /\ \E w \in WeightsArgs :
          /\ call' = [op |-> "weighted", weights |-> w]
          /\ out' = WeightedRankerRankVideos(WeightedRankerInit(w), videos,
                                             relevance_scores, now)
          /\ videos' = WeightedRankerCallerVideos(WeightedRankerInit(w), videos,
                                                  relevance_scores, now)
    /\ UNCHANGED <<now, relevance_scores, playlist_vars, route_vars, ext_vars>>

\* MLRanker().rank_videos(videos, relevance_scores)
RankML ==
    /\ call.op = "none"
    /\ \E mf \in ModelFiles :
          \E p \in Predictions(mf) :
             /\ call' = [op |-> "ml", model_file |-> mf, inference |-> p.inference,
                         scores |-> p.scores]
             /\ out' = MLRankerRankVideos(MLRankerInit(mf), videos, relevance_scores,
                                          now, p.inference, p.scores)
             /\ videos' = MLRankerCallerVideos(MLRankerInit(mf), videos, relevance_scores,
                                               now, p.inference, p.scores)
    /\ UNCHANGED <<now, relevance_scores, playlist_vars, route_vars, ext_vars>>

\* RankingEnsemble(weights, use_ml).rank_videos(videos, relevance_scores)
RankEnsemble ==
    /\ call.op = "none"
    /\ \E w \in WeightsArgs, use_ml \in BOOLEAN, setting \in BOOLEAN :
          \E mf \in (IF use_ml THEN ModelFiles ELSE {"absent"}) :
             \E p \in Predictions(IF use_ml /\ setting THEN mf ELSE "absent") :
                /\ call' = [op |-> "ensemble", weights |-> w, use_ml |-> use_ml,
                            setting |-> setting, model_file |-> mf,
                            inference |-> p.inference, scores |-> p.scores]
                /\ out' = RankingEnsembleRankVideos(
                              RankingEnsembleInit(w, use_ml, mf, setting),
                              videos, relevance_scores, now, p.inference, p.scores)
                /\ videos' = RankingEnsembleCallerVideos(
                                 RankingEnsembleInit(w, use_ml, mf, setting),
                                 videos, relevance_scores, now, p.inference, p.scores)
    /\ UNCHANGED <<now, relevance_scores, playlist_vars, route_vars, ext_vars>>

NextRank == RankWeighted \/ RankML \/ RankEnsemble

SpecRank == InitRank /\ [][NextRank]_vars

----------------------------------------------------------------------------
(* Claims about the rankers, under SpecRank *)

\* the outcome of WeightedRanker(weights).rank_videos on the harness inputs
WeightedOutcome(weights) ==
    WeightedRankerRankVideos(WeightedRankerInit(weights), videos, relevance_scores, now)

\* C1: RankingEnsemble(weights=W, use_ml=True) with no learned model loaded returns
\* the same items with the same scores in the same order as
\* WeightedRanker(W).rank_videos on the same input.
C1_EnsembleWithoutModelEqualsWeighted ==
    (call.op = "ensemble" /\ call.use_ml /\ call.model_file # "valid")
        => out = WeightedOutcome(call.weights)

\* C2: every item RankingEnsemble.rank_videos returns carries a 'score' and a
\* 'relevance_score' field, whichever strategy ran.
C2_EnsembleItemsCarryScoreFields ==
    (call.op = "ensemble" /\ out.ok)
        => \A i \in 1..Len(out.val) :
              {"score", "relevance_score"} \subseteq DOMAIN out.val[i]

\* C3: MLRanker.rank_videos never propagates an error of model loading or of
\* inference: with the model absent, unloadable or raising during scoring, the call
\* returns what the weighted (fallback) ranker returns on the same candidates and
\* relevance scores.
C3_MLRankerFallsBackToWeighted ==
    call.op = "ml"
        => /\ (call.model_file # "valid" \/ call.inference = "raises")
                  => out = WeightedOutcome(None)
           /\ ~out.ok => (out.err # "XGBoostError" /\ out = WeightedOutcome(None))

\* C3 witness: a loaded model raised during scoring and a ranked list came back
C3_Witness ==
    /\ call.op = "ml"
    /\ call.model_file = "valid"
    /\ call.inference = "raises"
    /\ out.ok
    /\ Len(out.val) >= 2

\* output item `item` is input candidate j with its score fields added
IsScoredCandidate(item, j) ==
    /\ \A f \in DOMAIN videos[j] : item[f] = videos[j][f]
    /\ item.relevance_score = relevance_scores[j]

\* C5: WeightedRanker.rank_videos returns its items in non-increasing order of
\* composite score, and candidates with equal composite scores keep the relative
\* order they had in the input list.
C5_WeightedSortedAndStable ==
    (call.op = "weighted" /\ out.ok)
        => LET n == Len(out.val)
           IN  /\ \A k \in 1..(n - 1) : out.val[k].score >= out.val[k + 1].score
               /\ \E pi \in Permutations(1..n) :
                     /\ \A k \in 1..n : IsScoredCandidate(out.val[k], pi[k])
                     /\ \A p, q \in 1..n :
                           (p < q /\ out.val[p].score = out.val[q].score)
                               => pi[p] < pi[q]

\* C5 witness: three ranked items, two different videos tied, one strictly ahead
C5_Witness ==
    /\ call.op = "weighted"
    /\ out.ok
    /\ Len(out.val) = 3
    /\ out.val[1].score > out.val[2].score
    /\ out.val[2].score = out.val[3].score
    /\ out.val[2].youtube_id # out.val[3].youtube_id

\* relevance_scores with 0 for every candidate that has no score of its own
PaddedRelevance == [i \in 1..Len(videos) |->
                      IF i <= Len(relevance_scores) THEN relevance_scores[i] ELSE 0]

\* C20: WeightedRanker.rank_videos takes a relevance score that is missing for a
\* candidate (a relevance list shorter than the candidate list) or NaN as 0 in
\* that candidate's composite score, and still returns every candidate, ranked.
C20_MissingRelevanceCountsAsZero ==
    (call.op = "weighted" /\ Len(relevance_scores) < Len(videos))
        => /\ out.ok
           /\ out = WeightedRankerRankVideos(WeightedRankerInit(call.weights), videos,
                                             PaddedRelevance, now)

\* C22: for every candidate that lacks the engineered features, the recency_score and
\* duration_penalty features MLRanker.rank_videos derives equal what WeightedRanker
\* computes for it (_compute_recency of its upload date, _compute_duration_penalty
\* of its duration), and like_ratio equals likes / max(views, 1).
C22_DerivedFeaturesMatchWeighted ==
    (call.op = "ml" /\ call.model_file = "valid" /\ call.inference = "ok" /\ out.ok)
        => \A k \in 1..Len(out.val) :
              LET item == out.val[k]
              IN  /\ item.recency_score = ComputeRecency(item.upload_date, now)
                  /\ item.duration_penalty = ComputeDurationPenalty(item.duration)
                  /\ item.like_ratio = (item.likes * 1000) \div Max2(item.views, 1)

\* output item `item` is input candidate j with exactly the two score fields added,
\* the relevance being the one given at position j
IsPairedCandidate(item, j) ==
    /\ DOMAIN item = DOMAIN videos[j] \cup {"score", "relevance_score"}
    /\ \A f \in DOMAIN videos[j] : item[f] = videos[j][f]
    /\ item.relevance_score = relevance_scores[j]

\* C29: the list WeightedRanker.rank_videos returns is a permutation of its input:
\* it has the length of the candidate list and each input candidate appears in it
\* exactly once, paired with the relevance score given at its input position.
C29_WeightedOutputIsPermutation ==
    (call.op = "weighted" /\ out.ok)
        => /\ Len(out.val) = Len(videos)
           /\ \E pi \in Permutations(1..Len(videos)) :
                 \A k \in 1..Len(videos) : IsPairedCandidate(out.val[k], pi[k])

\* C29 witness: three candidates with relevance scores that differ came back in
\* another order than they went in
C29_Witness ==
    /\ call.op = "weighted"
    /\ out.ok
    /\ Len(videos) = 3
    /\ relevance_scores[1] # relevance_scores[3]
    /\ out.val[1].youtube_id # videos[1].youtube_id

\* C28: ranking leaves its inputs unchanged: after RankingEnsemble.rank_videos
\* returns, on the weighted path, the learned-model path and the fallback path alike,
\* the caller's candidate list has the same elements in the same order and no
\* candidate dictionary has gained, lost or changed a field.
C28_RankingLeavesInputsUnchanged ==
    [][(call.op = "none" /\ call'.op = "ensemble") => videos' = videos]_vars

\* C28 witness: the learned model ranked two candidates into another order than the
\* caller's, each returned dict carrying the fields written on that path
C28_Witness ==
    /\ call.op = "ensemble"
    /\ call.use_ml /\ call.setting
    /\ call.model_file = "valid"
    /\ call.inference = "ok"
    /\ out.ok
    /\ Len(out.val) >= 2
    /\ out.val[1].youtube_id # videos[1].youtube_id
    /\ "ml_score" \in DOMAIN out.val[1]
    /\ "ml_score" \notin DOMAIN videos[1]

----------------------------------------------------------------------------
(* PlaylistGenerator._deduplicate_videos *)

RECURSIVE DedupByRecordFrom(_, _, _)
DedupByRecordFrom(rest, seen, unique) ==
    IF rest = <<>>
    THEN unique
    ELSE IF Head(rest) \in seen
         THEN DedupByRecordFrom(Tail(rest), seen, unique)
         ELSE DedupByRecordFrom(Tail(rest), seen \cup {Head(rest)},
                                Append(unique, Head(rest)))

\* a deduplicator that compares whole candidates instead of their youtube_id
DeduplicateByRecord(vs) == DedupByRecordFrom(vs, {}, <<>>)

\* the loop of _deduplicate_videos (lines 126-130)
RECURSIVE DedupFrom(_, _, _)
DedupFrom(rest, seen, unique) ==
    IF rest = <<>>
    THEN unique
    ELSE LET video_id == Head(rest).youtube_id
         IN  IF video_id \in seen
             THEN DedupFrom(Tail(rest), seen, unique)
             ELSE DedupFrom(Tail(rest), seen \cup {video_id}, Append(unique, Head(rest)))

\* PlaylistGenerator._deduplicate_videos
DeduplicateVideos(vs) == DedupFrom(vs, {}, <<>>)

\* VideoX as a later request returns it: same identifier, other statistics
VideoX2 == [youtube_id |-> "X", views |-> 2000, likes |-> 10, subscribers |-> 1000,
            duration |-> 600, upload_date |-> 730]

DedupPool == {VideoX, VideoX2, VideoY, VideoZ}

InitDedup ==
    /\ PlaylistIdle
    /\ RouteIdle
    /\ ExtIdle
    /\ now \in NowValues
    /\ videos \in SeqsUpTo(DedupPool, MaxDedup)
    /\ relevance_scores = <<>>
    /\ call = NoCall
    /\ out = None

\* self._deduplicate_videos(videos)
Dedup ==
    /\ call.op = "none"
    /\ call' = [op |-> "dedup"]
    /\ out' = Ok(DeduplicateVideos(videos))
    /\ UNCHANGED <<now, videos, relevance_scores, playlist_vars, route_vars, ext_vars>>

NextDedup == Dedup

SpecDedup == InitDedup /\ [][NextDedup]_vars

\* the position of the first candidate of `vs` with identifier `id`
FirstIndex(vs, id) == CHOOSE j \in 1..Len(vs) :
                         /\ vs[j].youtube_id = id
                         /\ \A h \in 1..(j - 1) : vs[h].youtube_id # id

\* C6: _deduplicate_videos returns exactly one entry per distinct youtube_id, that
\* entry being the first occurrence in the input, in the order of the first
\* occurrences.
C6_DedupKeepsFirstOccurrences ==
    call.op = "dedup"
        => LET u == out.val
           IN  /\ {u[k].youtube_id : k \in 1..Len(u)}
                      = {videos[j].youtube_id : j \in 1..Len(videos)}
               /\ \A k, h \in 1..Len(u) : k # h => u[k].youtube_id # u[h].youtube_id
               /\ \A k \in 1..Len(u) : u[k] = videos[FirstIndex(videos, u[k].youtube_id)]
               /\ \A k, h \in 1..Len(u) :
                     k < h => FirstIndex(videos, u[k].youtube_id)
                                  < FirstIndex(videos, u[h].youtube_id)

\* C6 witness: [A, B, A, C], the second A a different record, gives [A, B, C]
C6_Witness ==
    /\ call.op = "dedup"
    /\ Len(videos) = 4
    /\ videos[1].youtube_id = videos[3].youtube_id
    /\ videos[1] # videos[3]
    /\ Cardinality({videos[j].youtube_id : j \in 1..4}) = 3
    /\ out.val = <<videos[1], videos[2], videos[4]>>

----------------------------------------------------------------------------
(* RelevanceScorer.compute_batch_relevance *)

\* the embedding provider: the cosine similarity of the embedding of a topic text
\* and of a candidate text, in thousandths
CosineSimilarity(topic, video) ==
    CASE video.youtube_id = "X" -> 800
      [] video.youtube_id = "Y" -> -400
      [] video.youtube_id = "Z" -> -400
      [] video.youtube_id = "W" -> 0

\* a compute_batch_relevance that embeds the topic text before it looks at the
\* candidate list
ComputeBatchRelevanceEager(topic, vs, embed_ok) ==
    IF ~embed_ok
    THEN [ret |-> Raise("EmbeddingError"), encode_calls |-> 1]
    ELSE IF Len(vs) = 0
         THEN [ret |-> Ok(<<>>), encode_calls |-> 1]
         ELSE [ret |-> Ok([i \in 1..Len(vs) |->
                             (CosineSimilarity(topic, vs[i]) + 1000) \div 2]),
               encode_calls |-> 2]

\* a scorer that calls compute_relevance (lines 17-47) for each candidate: two
\* encode calls per candidate
ComputeBatchRelevancePerCandidate(topic, vs, embed_ok) ==
    IF Len(vs) = 0
    THEN [ret |-> Ok(<<>>), encode_calls |-> 0]
    ELSE IF ~embed_ok
         THEN [ret |-> Raise("EmbeddingError"), encode_calls |-> 1]
         ELSE [ret |-> Ok([i \in 1..Len(vs) |->
                             (CosineSimilarity(topic, vs[i]) + 1000) \div 2]),
               encode_calls |-> 2 * Len(vs)]

\* compute_batch_relevance with the number of self.model.encode calls it makes:
\* `embed_ok` is whether the embedding provider answers
ComputeBatchRelevanceTrace(topic, vs, embed_ok) ==
    IF Len(vs) = 0
    THEN [ret |-> Ok(<<>>), encode_calls |-> 0]
    ELSE IF ~embed_ok
         THEN [ret |-> Raise("EmbeddingError"), encode_calls |-> 1]
         ELSE [ret |-> Ok([i \in 1..Len(vs) |->
                             (CosineSimilarity(topic, vs[i]) + 1000) \div 2]),
               encode_calls |-> 2]

\* what compute_batch_relevance returns or raises
ComputeBatchRelevance(topic, vs, embed_ok) ==
    ComputeBatchRelevanceTrace(topic, vs, embed_ok).ret

----------------------------------------------------------------------------
(* PlaylistGenerator.generate_playlist *)

\* stands for Python's None where a string is expected; no topic id equals it
NoneStr == "<None>"

TopicA == [id |-> "t1", title |-> "Binary Search Trees"]

\* shares its id with TopicA
TopicA2 == [id |-> "t1", title |-> "Heaps"]

\* has no id
TopicN == [title |-> "Graphs"]

TopicPool == {TopicA, TopicA2, TopicN}

\* the values of videos_per_topic drawn; PlaylistCreate admits 1..20
PerTopicValues == {1, 2}

\* topic.get('id')
TopicGetId(topic) == IF "id" \in DOMAIN topic THEN topic.id ELSE NoneStr

\* max_queries at line 63
MaxQueries == 2

\* templates per difficulty level in QueryGenerator.TEMPLATES
NumTemplates == 6

\* len(queries): generate_queries returns templates[:max_queries] filled in
QueryCount == Min2(NumTemplates, MaxQueries)

\* the candidates the playlist model retrieves
PlaylistPool == {VideoX, VideoW}

\* what search_videos may return for one query: at most max_results candidates
\* with different identifiers; the empty list also when the request failed
SearchResults(max_results) ==
    {r \in SeqsUpTo(PlaylistPool, Min2(max_results, Cardinality(PlaylistPool))) :
        \A i, j \in 1..Len(r) : i # j => r[i].youtube_id # r[j].youtube_id}

\* all_videos after the loop over the queries (lines 67-74)
RECURSIVE Extend(_, _)
Extend(rs, k) == IF k = 0 THEN <<>> ELSE Extend(rs, k - 1) \o rs[k]

\* top_videos = ranked_videos[:videos_per_topic] but one entry longer
TopVideosOneMore(ranked_videos, n) ==
    SubSeq(ranked_videos, 1, Min2(n + 1, Len(ranked_videos)))

\* top_videos = ranked_videos[:videos_per_topic], videos_per_topic >= 1
TopVideos(ranked_videos, n) == SubSeq(ranked_videos, 1, Min2(n, Len(ranked_videos)))

\* the items of one topic (lines 95-103); video['score'] raises KeyError
BuildItems(topic, top_videos) ==
    IF \E k \in 1..Len(top_videos) : "score" \notin DOMAIN top_videos[k]
    THEN Raise("KeyError")
    ELSE Ok([k \in 1..Len(top_videos) |->
               [topic_id |-> TopicGetId(topic),
                topic_title |-> topic.title,
                video |-> top_videos[k],
                rank |-> k,
                score |-> top_videos[k].score,
                relevance_score |-> IF "relevance_score" \in DOMAIN top_videos[k]
                                    THEN top_videos[k].relevance_score
                                    ELSE NoneStr]])

\* a total that forgets the durations of the items after the first
AddDurationsFirstOnly(total, items) ==
    IF Len(items) = 0 THEN total ELSE total + items[1].video.duration

\* total_duration += video['duration'] for each item added (line 104)
RECURSIVE AddDurations(_, _)
AddDurations(total, items) ==
    IF Len(items) = 0
    THEN total
    ELSE AddDurations(total + Head(items).video.duration, Tail(items))

\* one pass of the loop body (lines 54-104) for `topic`: Raise(e) when the pass
\* raises, else the items it adds, the number of deduplicated candidates,
\* whether compute_batch_relevance and rank_videos were called and the number of
\* self.model.encode calls made
ProcessOneTopic(topic, rk, n, utcnow, all_videos, embed_ok, p) ==
    LET unique_videos == DeduplicateVideos(all_videos)
    IN  IF Len(unique_videos) = 0
        THEN Ok([items |-> <<>>, unique |-> 0, scored |-> FALSE, ranked |-> FALSE,
                 encode_calls |-> 0])
        ELSE LET trace == ComputeBatchRelevanceTrace(topic, unique_videos, embed_ok)
                 rel == trace.ret
             IN  IF ~rel.ok
                 THEN rel
                 ELSE LET ranked == RankingEnsembleRankVideos(rk, unique_videos, rel.val,
                                                              utcnow, p.inference, p.scores)
                      IN  IF ~ranked.ok
                          THEN ranked
                          ELSE LET built == BuildItems(topic,
                                                       TopVideos(ranked.val, n))
                               IN  IF ~built.ok
                                   THEN built
                                   ELSE Ok([items |-> built.val,
                                            unique |-> Len(unique_videos),
                                            scored |-> TRUE, ranked |-> TRUE,
                                            encode_calls |-> trace.encode_calls])

\* the learned model is the strategy rank_videos reaches
ModelReached(rk) == rk.use_ml /\ ~IsNone(rk.ml_ranker) /\ rk.ml_ranker.model

\* topics_covered (line 110)
TopicsCovered(ts, items) ==
    Cardinality({t \in 1..Len(ts) :
                    \E i \in 1..Len(items) : items[i].topic_id = TopicGetId(ts[t])})

HarnessIdle ==
    /\ videos = <<>>
    /\ relevance_scores = <<>>
    /\ call = NoCall
    /\ out = None

Init ==
    /\ PlaylistIdle
    /\ RouteIdle
    /\ ExtIdle
    /\ HarnessIdle
    /\ now \in NowValues

\* generate_playlist is called: lines 46-50
GeneratePlaylistStart ==
    /\ pc = "idle"
    /\ \E ts \in SeqsUpTo(TopicPool, MaxTopics), n \in PerTopicValues,
          w \in WeightsArgs, use_ml_ranking \in BOOLEAN, mf \in ModelFiles :
          /\ topics' = ts
          /\ videos_per_topic' = n
          /\ ranker' = RankingEnsembleInit(w, use_ml_ranking, mf, USE_ML_RANKING)
    /\ playlist_items' = <<>>
    /\ total_duration' = 0
    /\ pc' = "running"
    /\ UNCHANGED <<now, harness_vars, route_vars, ext_vars, idx, result, item_owner,
                   dedup_count, invoked>>

\* one pass of the for loop over the topics (lines 53-104)
GeneratePlaylistTopic ==
    /\ pc = "running"
    /\ idx < Len(topics)
    /\ \E rs \in [1..QueryCount -> SearchResults(videos_per_topic * 2)],
          embed_ok \in BOOLEAN :
          LET all_videos == Extend(rs, QueryCount)
              n_unique == Len(DeduplicateVideos(all_videos))
          IN  \E p \in PredictionsFor(ModelReached(ranker) /\ embed_ok, n_unique) :
                 \E o \in {ProcessOneTopic(topics[idx + 1], ranker, videos_per_topic,
                                            now, all_videos, embed_ok, p)} :
                     IF o.ok
                     THEN /\ playlist_items' = playlist_items \o o.val.items
                          /\ total_duration' = AddDurations(total_duration, o.val.items)
                          /\ item_owner' = item_owner
                                             \o [k \in 1..Len(o.val.items) |-> idx + 1]
                          /\ dedup_count' = Append(dedup_count, o.val.unique)
                          /\ invoked' = Append(invoked,
                                               [scored |-> o.val.scored,
                                                ranked |-> o.val.ranked,
                                                encode_calls |-> o.val.encode_calls])
                          /\ idx' = idx + 1
                          /\ UNCHANGED <<pc, result>>
                     ELSE /\ pc' = "raised"
                          /\ result' = o
                          /\ UNCHANGED <<playlist_items, total_duration, item_owner,
                                         dedup_count, invoked, idx>>
    /\ UNCHANGED <<now, harness_vars, route_vars, ext_vars, topics, videos_per_topic,
                   ranker>>

\* the return statement (lines 106-111)
GeneratePlaylistReturn ==
    /\ pc = "running"
    /\ idx = Len(topics)
    /\ result' = Ok([items |-> playlist_items,
                     total_videos |-> Len(playlist_items),
                     total_duration |-> total_duration,
                     topics_covered |-> TopicsCovered(topics, playlist_items)])
    /\ pc' = "done"
    /\ UNCHANGED <<now, harness_vars, route_vars, ext_vars, topics, videos_per_topic,
                   ranker, idx, playlist_items, total_duration, item_owner, dedup_count,
                   invoked>>

Next == GeneratePlaylistStart \/ GeneratePlaylistTopic \/ GeneratePlaylistReturn

Spec == Init /\ [][Next]_vars

----------------------------------------------------------------------------
(* Claims about generate_playlist, under Spec *)

\* the positions in playlist_items of the items topic number t added
ItemsOf(t) == {i \in 1..Len(item_owner) : item_owner[i] = t}

\* C4: a failure raised while one topic is processed (by retrieval, relevance
\* scoring or ranking) does not abort generate_playlist: the call still returns.
C4_TopicFailureDoesNotAbort == pc # "raised"

\* C7: in the result of generate_playlist the items of each topic number
\* min(videos_per_topic, deduplicated candidates), carry the ranks 1..k each exactly
\* once, and their composite scores do not increase as the rank increases.
C7_TopicItemsRankedTopK ==
    pc = "done"
        => \A t \in 1..Len(topics) :
              LET items == result.val.items
                  k == Cardinality(ItemsOf(t))
              IN  /\ k = Min2(videos_per_topic, dedup_count[t])
                  /\ {items[i].rank : i \in ItemsOf(t)} = 1..k
                  /\ \A i \in ItemsOf(t) : items[i].score = items[i].video.score
                  /\ \A i, j \in ItemsOf(t) :
                        items[i].rank < items[j].rank => items[i].score >= items[j].score

\* C7 witness: one topic kept both of its two candidates, strictly ordered, and
\* another topic had fewer candidates than videos_per_topic
C7_Witness ==
    /\ pc = "done"
    /\ videos_per_topic = 2
    /\ \E t, u \in 1..Len(topics) :
          /\ dedup_count[t] = 2
          /\ \E i, j \in ItemsOf(t) :
                /\ result.val.items[i].rank = 1
                /\ result.val.items[j].rank = 2
                /\ result.val.items[i].score > result.val.items[j].score
          /\ dedup_count[u] = 1
          /\ Cardinality(ItemsOf(u)) = 1

\* C8: topics_covered equals the number of input topics that yielded at least one
\* playlist item, also for topics that share an id or have none.
C8_TopicsCoveredCountsTopicsWithItems ==
    pc = "done"
        => result.val.topics_covered
              = Cardinality({t \in 1..Len(topics) : ItemsOf(t) # {}})

RECURSIVE SumDurations(_, _)
SumDurations(items, n) ==
    IF n = 0 THEN 0 ELSE SumDurations(items, n - 1) + items[n].video.duration

\* C9: in the result of generate_playlist, total_videos is the number of entries of
\* items and total_duration is the sum of the durations of the videos in items.
C9_TotalsMatchItems ==
    pc = "done"
        => /\ result.val.total_videos = Len(result.val.items)
           /\ result.val.total_duration
                 = SumDurations(result.val.items, Len(result.val.items))

\* C9 witness: a result of three items of two topics, of different durations
C9_Witness ==
    /\ pc = "done"
    /\ Len(result.val.items) = 3
    /\ result.val.total_duration = 600 + 3600 + 600
    /\ Cardinality({item_owner[i] : i \in 1..3}) = 2

\* C14: a topic whose queries return no candidate at all adds no item and nothing
\* to total_duration, is not counted in topics_covered and does not make the call
\* raise; neither the relevance scorer nor the ranker is invoked for it.
C14_EmptyTopicContributesNothing ==
    \A t \in 1..Len(dedup_count) :
        dedup_count[t] = 0
            => /\ ItemsOf(t) = {}
               /\ ~invoked[t].scored
               /\ ~invoked[t].ranked
               /\ pc = "done"
                     => /\ result.ok
                        /\ result.val.total_duration
                              = SumDurations(playlist_items, Len(playlist_items))
                        /\ result.val.topics_covered
                              = Cardinality({u \in 1..Len(topics) : ItemsOf(u) # {}})
                        /\ ~\E i \in 1..Len(playlist_items) :
                               playlist_items[i].topic_id = TopicGetId(topics[t])

\* C23: for every topic with a non-empty deduplicated candidate set that
\* generate_playlist goes through, the embedding provider (answering) is called
\* exactly twice: once for the topic text and once for all the candidate texts as
\* one batch; never once per candidate.
C23_TwoEncodeCallsPerTopic ==
    \A t \in 1..Len(dedup_count) :
        dedup_count[t] > 0
            => /\ invoked[t].scored
               /\ invoked[t].encode_calls = 2

\* C23 witness: a returned call went through a topic with two distinct candidates
\* and made two encode calls for it
C23_Witness ==
    /\ pc = "done"
    /\ \E t \in 1..Len(dedup_count) :
          /\ dedup_count[t] = 2
          /\ invoked[t].encode_calls = 2
          /\ Cardinality(ItemsOf(t)) >= 1

----------------------------------------------------------------------------
(* RankingWeights (schemas.py) and POST /generate-playlist (playlists.py) *)

\* the fields of RankingWeights, in declaration order
WeightFields == <<"views", "likes", "subscribers", "relevance", "recency",
                  "duration_penalty">>

\* the weights a request body may give, in hundredths
WeightValues == {-5, 0, 20, 100, 150}

\* the "weights" objects drawn: any subset of the fields, any of the values
WeightRequests ==
    UNION {[D -> WeightValues] : D \in SUBSET {WeightFields[k] : k \in 1..6}}

\* sum(values.values()) over the fields validated so far
RECURSIVE SumValues(_, _)
SumValues(values, k) ==
    IF k = 0
    THEN 0
    ELSE SumValues(values, k - 1)
            + (IF WeightFields[k] \in DOMAIN values THEN values[WeightFields[k]] ELSE 0)

\* check_sum (lines 88-95): the sum is looked at only when five fields are
\* already in `values`
CheckSum(v, values) ==
    IF Cardinality(DOMAIN values) = 5
    THEN 95 <= SumValues(values, 6) + v /\ SumValues(values, 6) + v <= 105
    ELSE TRUE

\* pydantic's validation of the fields in declaration order: a field the body
\* gives is checked against ge=0, le=1 and then by the validator; a field the body
\* leaves out takes its default and no validator runs on it
RECURSIVE ValidateFields(_, _, _, _)
ValidateFields(body, k, values, errors) ==
    IF k > 6
    THEN IF errors = 0 THEN Ok(values) ELSE Raise("ValidationError")
    ELSE LET f == WeightFields[k]
         IN  IF f \notin DOMAIN body
             THEN ValidateFields(body, k + 1, values @@ (f :> DefaultWeights[f]), errors)
             ELSE IF body[f] < 0 \/ body[f] > 100 \/ ~CheckSum(body[f], values)
                  THEN ValidateFields(body, k + 1, values, errors + 1)
                  ELSE ValidateFields(body, k + 1, values @@ (f :> body[f]), errors)

\* RankingWeights(**body)
RankingWeightsValidate(body) == ValidateFields(body, 1, <<>>, 0)

\* the topics of a document as the route reads them: each with its own id
RouteTopics == {<<TopicA>>, <<TopicA, TopicN>>}

InitRoute ==
    /\ PlaylistIdle
    /\ ExtIdle
    /\ HarnessIdle
    /\ now \in NowValues
    /\ request_weights \in WeightRequests
    /\ validation = None

\* POST /generate-playlist with a body whose weights are request_weights: the body
\* is validated; a valid one reaches process_playlist_generation, which calls
\* generate_playlist(topic_dicts, weights=request.weights.dict(), ...)
RouteGeneratePlaylist ==
    /\ pc = "idle"
    /\ IsNone(validation)
    /\ validation' = RankingWeightsValidate(request_weights)
    /\ IF validation'.ok
       THEN \E ts \in RouteTopics, use_ml_ranking \in BOOLEAN :
               /\ topics' = ts
               /\ videos_per_topic' = 1
               /\ ranker' = RankingEnsembleInit(validation'.val, use_ml_ranking, "absent",
                                                USE_ML_RANKING)
               /\ playlist_items' = <<>>
               /\ total_duration' = 0
               /\ pc' = "running"
       ELSE UNCHANGED <<topics, videos_per_topic, ranker, playlist_items, total_duration,
                        pc>>
    /\ UNCHANGED <<now, harness_vars, ext_vars, request_weights, idx, result, item_owner,
                   dedup_count, invoked>>

NextRoute == RouteGeneratePlaylist \/ GeneratePlaylistTopic \/ GeneratePlaylistReturn

SpecRoute == InitRoute /\ [][NextRoute]_vars

\* each weight in [0, 1] and their sum in [0.95, 1.05]
ValidWeights(w) ==
    /\ \A k \in 1..6 : 0 <= w[WeightFields[k]] /\ w[WeightFields[k]] <= 100
    /\ 95 <= SumValues(w, 6)
    /\ SumValues(w, 6) <= 105

\* the weighted ranker of the ensemble is the strategy rank_videos runs
WeightedPath(rk) == ~(rk.use_ml /\ ~IsNone(rk.ml_ranker))

\* C10: a weights configuration with a weight outside [0,1] or a sum outside
\* [0.95, 1.05] is rejected before any ranking runs: no rank_videos call computes a
\* score with such weights.
C10_NoScoreWithInvalidWeights ==
    (pc # "idle" /\ WeightedPath(ranker) /\ Len(playlist_items) > 0)
        => ValidWeights(ranker.weighted_ranker)

----------------------------------------------------------------------------
(* generate_playlist as one call on given collaborator responses, and the   *)
(* same call made again                                                      *)

\* the candidates the retrieval collaborator returns in the replayed calls
CallPool == {VideoX, VideoY}

\* the answer of the YouTube API to the request of one query: the request fails,
\* or yields at most max_results candidates with different identifiers
QueryAnswers(max_results) ==
    {[api |-> "fails", videos |-> <<>>]}
    \cup {[api |-> "ok", videos |-> r] :
            r \in {q \in SeqsUpTo(CallPool, Min2(max_results, Cardinality(CallPool))) :
                     \A i, j \in 1..Len(q) : i # j => q[i].youtube_id # q[j].youtube_id}}

\* what search_videos returns for one query: the except clauses (lines 87-94)
\* turn a failed request into the empty list
SearchVideosReturn(answer) == IF answer.api = "fails" THEN <<>> ELSE answer.videos

\* an all_videos that a failed request cuts short: nothing of the later queries
RECURSIVE AllVideosUntilFailure(_, _)
AllVideosUntilFailure(answers, k) ==
    IF k = 0
    THEN <<>>
    ELSE IF \E q \in 1..(k - 1) : answers[q].api = "fails"
         THEN AllVideosUntilFailure(answers, k - 1)
         ELSE AllVideosUntilFailure(answers, k - 1) \o SearchVideosReturn(answers[k])

\* all_videos after the loop over the queries (lines 67-74)
RECURSIVE AllVideos(_, _)
AllVideos(answers, k) ==
    IF k = 0 THEN <<>> ELSE AllVideos(answers, k - 1) \o SearchVideosReturn(answers[k])

\* the responses of the collaborators while one topic is processed: one answer per
\* query, whether the embedding provider answers, what the learned model does
TopicResponses(n, rk) ==
    UNION {{[answers |-> a, embed_ok |-> e, p |-> p] :
              p \in PredictionsFor(ModelReached(rk) /\ e,
                                   Len(DeduplicateVideos(AllVideos(a, QueryCount))))} :
           a \in [1..QueryCount -> QueryAnswers(n * 2)], e \in BOOLEAN}

\* the for loop of generate_playlist from topic k on, then the return statement
RECURSIVE GeneratePlaylistFrom(_, _, _, _, _, _, _, _)
GeneratePlaylistFrom(ts, rk, n, utcnow, resp, k, items, duration) ==
    IF k > Len(ts)
    THEN Ok([items |-> items,
             total_videos |-> Len(items),
             total_duration |-> duration,
             topics_covered |-> TopicsCovered(ts, items)])
    ELSE LET o == ProcessOneTopic(ts[k], rk, n, utcnow,
                                  AllVideos(resp[k].answers, QueryCount),
                                  resp[k].embed_ok, resp[k].p)
         IN  IF o.ok
             THEN GeneratePlaylistFrom(ts, rk, n, utcnow, resp, k + 1,
                                       items \o o.val.items,
                                       AddDurations(duration, o.val.items))
             ELSE o

\* generate_playlist(topics, weights, filters, videos_per_topic, use_ml_ranking) run
\* at time utcnow, the collaborators answering `resp`
GeneratePlaylistCall(ts, rk, n, utcnow, resp) ==
    GeneratePlaylistFrom(ts, rk, n, utcnow, resp, 1, <<>>, 0)

\* the topic lists of the replayed calls: identifiers all different
CallTopics == {<<TopicA>>, <<TopicN, TopicA>>}

\* the ranking modes of the replayed calls
CallRankers ==
    {RankingEnsembleInit(w, FALSE, "absent", USE_ML_RANKING) : w \in WeightsArgs}
    \cup {RankingEnsembleInit(None, TRUE, "valid", USE_ML_RANKING)}

\* the times at which the call is made again: the same day, a year later
ReplayTimes == {730, 1095}

InitCall ==
    /\ RouteIdle
    /\ HarnessIdle
    /\ now \in NowValues
    /\ topics \in CallTopics
    /\ videos_per_topic \in PerTopicValues
    /\ ranker \in CallRankers
    /\ ModelReached(ranker) => Len(topics) = 1    \* keeps the replayed calls few
    /\ responses \in [1..Len(topics) -> TopicResponses(videos_per_topic, ranker)]
    /\ idx = 0
    /\ playlist_items = <<>>
    /\ total_duration = 0
    /\ pc = "idle"
    /\ result = None
    /\ item_owner = <<>>
    /\ dedup_count = <<>>
    /\ invoked = <<>>
    /\ earlier = None
    /\ input = None
    /\ redis = <<>>
    /\ ServiceIdle

\* generate_playlist is called and runs to its end
GeneratePlaylistOnce ==
    /\ IsNone(earlier)
    /\ earlier' = GeneratePlaylistCall(topics, ranker, videos_per_topic, now, responses)
    /\ UNCHANGED <<now, harness_vars, playlist_vars, route_vars, responses, input,
                   search_vars, limit_vars>>

\* the same call is made again, the collaborators answering as before
GeneratePlaylistAgain ==
    /\ ~IsNone(earlier)
    /\ IsNone(result)
    /\ \E t \in ReplayTimes :
          /\ now' = t
          /\ result' = GeneratePlaylistCall(topics, ranker, videos_per_topic, t, responses)
    /\ UNCHANGED <<harness_vars, route_vars, ext_vars, topics, videos_per_topic, ranker,
                   idx, playlist_items, total_duration, pc, item_owner, dedup_count,
                   invoked>>

NextCall == GeneratePlaylistOnce \/ GeneratePlaylistAgain

SpecCall == InitCall /\ [][NextCall]_vars

\* C11: two generate_playlist calls with identical arguments and identical
\* collaborator responses return identical items and summary values, whenever
\* each of them runs.
C11_ReplayReturnsSameResult ==
    (~IsNone(earlier) /\ ~IsNone(result)) => result = earlier

----------------------------------------------------------------------------
(* redis_client and YouTubeService.search_videos *)

\* the videos the YouTube API knows, as _parse_video_item builds them;
\* upload_date is a datetime
ApiVideoA == [youtube_id |-> "A", views |-> 10000, likes |-> 100, subscribers |-> 500,
              duration |-> 600, upload_date |-> 700, has_captions |-> TRUE,
              is_hd |-> TRUE]

ApiVideoB == [youtube_id |-> "B", views |-> 500, likes |-> 5, subscribers |-> 500,
              duration |-> 1500, upload_date |-> 365, has_captions |-> FALSE,
              is_hd |-> FALSE]

ApiVideos == {ApiVideoA, ApiVideoB}

ApiVideo(id) == CHOOSE v \in ApiVideos : v.youtube_id = id

\* json.dumps: a datetime is not serializable
HasDatetime(video) == "upload_date" \in DOMAIN video

JsonDumpsVideo(video) == IF HasDatetime(video) THEN Raise("TypeError") ELSE Ok(video)

JsonDumpsList(vs) ==
    IF \E i \in 1..Len(vs) : HasDatetime(vs[i]) THEN Raise("TypeError") ELSE Ok(vs)

\* redis_client.set(key, value): nothing is stored when json.dumps raises
RedisSet(store, key, dumped) == IF dumped.ok THEN (key :> dumped.val) @@ store ELSE store

\* `cached = redis_client.get(key)` followed by `if cached:` on a list
RedisHitList(store, key) == key \in DOMAIN store /\ Len(store[key]) > 0

\* `cached = redis_client.get(key)` followed by `if cached:` on a video dict
RedisHitVideo(store, key) == key \in DOMAIN store

SearchKey(query, max_results) == <<"search", query, max_results>>

VideoKey(id) == <<"video", id>>

\* _apply_filters; `filters` holds the keys whose value is not None
ApplyFilters(video, filters) ==
    IF DOMAIN filters = {}
    THEN TRUE
    ELSE IF "min_views" \in DOMAIN filters /\ filters.min_views # 0
            /\ video.views < filters.min_views
    THEN FALSE
    ELSE IF "max_duration" \in DOMAIN filters /\ filters.max_duration # 0
            /\ video.duration > filters.max_duration
    THEN FALSE
    ELSE IF "min_duration" \in DOMAIN filters /\ filters.min_duration # 0
            /\ video.duration < filters.min_duration
    THEN FALSE
    ELSE IF "has_captions" \in DOMAIN filters /\ filters.has_captions
            /\ ~video.has_captions
    THEN FALSE
    ELSE IF "is_hd" \in DOMAIN filters /\ filters.is_hd /\ ~video.is_hd
    THEN FALSE
    ELSE TRUE

\* _parse_video_item: subscribers come from the channel statistics, 0 when absent
ParseVideoItem(item, stats_ok) == [item EXCEPT !.subscribers = IF stats_ok THEN @ ELSE 0]

\* the first loop of _get_video_details (lines 111-117) from position k on
RECURSIVE SplitCached(_, _, _, _, _)
SplitCached(store, video_ids, k, cached, uncached) ==
    IF k > Len(video_ids)
    THEN [videos |-> cached, uncached_ids |-> uncached]
    ELSE IF RedisHitVideo(store, VideoKey(video_ids[k]))
         THEN SplitCached(store, video_ids, k + 1,
                          Append(cached, store[VideoKey(video_ids[k])]), uncached)
         ELSE SplitCached(store, video_ids, k + 1, cached, Append(uncached, video_ids[k]))

\* the loop over the items of the videos.list response (lines 137-146)
RECURSIVE ProcessItems(_, _, _, _, _, _)
ProcessItems(store, ids, k, filters, stats_ok, acc) ==
    IF k > Len(ids)
    THEN [videos |-> acc, redis |-> store]
    ELSE LET video == ParseVideoItem(ApiVideo(ids[k]), stats_ok)
         IN  IF ApplyFilters(video, filters)
             THEN ProcessItems(RedisSet(store, VideoKey(video.youtube_id),
                                        JsonDumpsVideo(video)),
                               ids, k + 1, filters, stats_ok, Append(acc, video))
             ELSE ProcessItems(store, ids, k + 1, filters, stats_ok, acc)

\* _rate_limit run by the only caller of the service at time t: the time at which
\* it returns, which is the time it leaves in last_request_time
RateLimit(t, last) ==
    IF t - last < MinRequestInterval THEN last + MinRequestInterval ELSE t

\* _get_video_details at time t; `api` tells what the videos.list and channels.list
\* requests do; `requests` lists the API requests issued, with whether they answered
GetVideoDetails(store, quota, last, t, video_ids, filters, api) ==
    LET split == SplitCached(store, video_ids, 1, <<>>, <<>>)
    IN  IF Len(split.uncached_ids) = 0
        THEN [videos |-> split.videos, redis |-> store, quota_used |-> quota,
              last_request_time |-> last, clock |-> t, requests |-> <<>>]
        ELSE LET t1 == RateLimit(t, last)
             IN  IF api.details = "fails"
                 THEN [videos |-> split.videos, redis |-> store, quota_used |-> quota,
                       last_request_time |-> t1, clock |-> t1,
                       requests |-> <<[kind |-> "videos", ok |-> FALSE]>>]
                 ELSE LET t2 == RateLimit(t1, t1)
                          done == ProcessItems(store, split.uncached_ids, 1, filters,
                                               api.channels = "ok", split.videos)
                      IN  [videos |-> done.videos,
                           redis |-> done.redis,
                           quota_used |-> quota + 1
                                            + (IF api.channels = "ok" THEN 1 ELSE 0),
                           last_request_time |-> t2, clock |-> t2,
                           requests |-> <<[kind |-> "videos", ok |-> TRUE],
                                          [kind |-> "channels",
                                           ok |-> (api.channels = "ok")]>>]

\* a search_videos that throttles before it looks into the cache
SearchVideosCachedThrottled(store, quota, last, t, query, max_results) ==
    [ret |-> Ok(store[SearchKey(query, max_results)]), redis |-> store,
     quota_used |-> quota, last_request_time |-> RateLimit(t, last),
     clock |-> RateLimit(t, last), requests |-> <<>>, hit |-> TRUE]

\* search_videos answered from the search cache (lines 45-48)
SearchVideosCached(store, quota, last, t, query, max_results) ==
    [ret |-> Ok(store[SearchKey(query, max_results)]), redis |-> store,
     quota_used |-> quota, last_request_time |-> last, clock |-> t,
     requests |-> <<>>, hit |-> TRUE]

\* search_videos at time t; `api.search` is "fails" or the video ids the search
\* request yields
SearchVideos(store, quota, last, t, query, max_results, filters, api) ==
    IF RedisHitList(store, SearchKey(query, max_results))
    THEN SearchVideosCached(store, quota, last, t, query, max_results)
    ELSE LET t1 == RateLimit(t, last)
         IN  IF api.search = "fails"
             THEN [ret |-> Ok(<<>>), redis |-> store, quota_used |-> quota,
                   last_request_time |-> t1, clock |-> t1,
                   requests |-> <<[kind |-> "search", ok |-> FALSE]>>, hit |-> FALSE]
             ELSE IF Len(api.ids) = 0
             THEN [ret |-> Ok(<<>>), redis |-> store, quota_used |-> quota + 100,
                   last_request_time |-> t1, clock |-> t1,
                   requests |-> <<[kind |-> "search", ok |-> TRUE]>>, hit |-> FALSE]
             ELSE LET got == GetVideoDetails(store, quota + 100, t1, t1, api.ids,
                                             filters, api)
                  IN  [ret |-> Ok(got.videos),
                       redis |-> RedisSet(got.redis, SearchKey(query, max_results),
                                          JsonDumpsList(got.videos)),
                       quota_used |-> got.quota_used,
                       last_request_time |-> got.last_request_time,
                       clock |-> got.clock,
                       requests |-> <<[kind |-> "search", ok |-> TRUE]>>
                                       \o got.requests,
                       hit |-> FALSE]

\* the filters given to search_videos: no filter, one filter, several
FilterPool ==
    {<<>>,
     [min_views |-> 1000], [max_duration |-> 900], [max_duration |-> 0],
     [min_duration |-> 900], [has_captions |-> TRUE], [is_hd |-> TRUE],
     [has_captions |-> FALSE, is_hd |-> FALSE],
     [min_views |-> 1000, max_duration |-> 900, min_duration |-> 300,
      has_captions |-> TRUE, is_hd |-> TRUE]}

Queries == {"q1", "q2"}

MaxResultsValues == {1, 2}

\* most search_videos calls made on one service
MaxSearches == 2

\* what the YouTube API does during one search_videos call asking max_results
ApiResponses(max_results) ==
    {[search |-> "fails", ids |-> <<>>, details |-> "ok", channels |-> "ok"]}
    \cup {[search |-> "ok", ids |-> i, details |-> d, channels |-> c] :
            i \in {q \in SeqsUpTo({"A", "B"}, Min2(max_results, 50)) :
                     \A h, j \in 1..Len(q) : h # j => q[h] # q[j]},
            d \in {"ok", "fails"}, c \in {"ok", "fails"}}

\* the time that passes between two search_videos calls, in tenths of a second
Waits == {0, 3}

InitSearch ==
    /\ PlaylistIdle
    /\ RouteIdle
    /\ ExtIdle
    /\ now \in NowValues
    /\ videos = <<>>
    /\ relevance_scores = <<>>
    /\ call = [op |-> "none", n |-> 0]
    /\ out = None

\* youtube_service.search_videos(query, max_results, filters) with filters drawn
\* from `pool`, made `wait` after the previous call returned, `wait` drawn from
\* `waits`
SearchVideosStep(pool, waits) ==
    /\ call.n < MaxSearches
    /\ \E query \in Queries, max_results \in MaxResultsValues, filters \in pool,
          wait \in waits :
          \E api \in ApiResponses(max_results) :
             \E o \in {SearchVideos(redis, quota_used, last_request_time, clock + wait,
                                     query, max_results, filters, api)} :
                /\ call' = [op |-> "search", n |-> call.n + 1, query |-> query,
                            max_results |-> max_results, filters |-> filters,
                            hit |-> o.hit, requests |-> o.requests]
                /\ out' = o.ret
                /\ redis' = o.redis
                /\ quota_used' = o.quota_used
                /\ last_request_time' = o.last_request_time
                /\ clock' = o.clock
    /\ UNCHANGED <<now, videos, relevance_scores, playlist_vars, route_vars, call_vars,
                   input, limit_vars>>

\* search_videos calls made back to back, with any of the filters
SearchVideosCall == SearchVideosStep(FilterPool, {0})

NextSearch == SearchVideosCall

SpecSearch == InitSearch /\ [][NextSearch]_vars

\* a video as a cache entry holds it: JSON has no datetime
CachedVideoB == [youtube_id |-> "B", views |-> 500, likes |-> 5, subscribers |-> 500,
                 duration |-> 1500, has_captions |-> FALSE, is_hd |-> FALSE]

\* the cache with one search answered by another writer of the same keys
WarmStore == SearchKey("q1", 1) :> <<CachedVideoB>>

\* the service starts on a cache that holds an answer for one search
InitSearchWarm ==
    /\ PlaylistIdle
    /\ RouteIdle
    /\ responses = <<>>
    /\ earlier = None
    /\ input = None
    /\ redis = WarmStore
    /\ ServiceIdle
    /\ now \in NowValues
    /\ videos = <<>>
    /\ relevance_scores = <<>>
    /\ call = [op |-> "none", n |-> 0]
    /\ out = None

\* search_videos calls made at once or after a pause, unfiltered or filtered
SearchVideosTimedCall == SearchVideosStep({<<>>, [min_views |-> 1000]}, Waits)

NextSearchWarm == SearchVideosTimedCall

SpecSearchWarm == InitSearchWarm /\ [][NextSearchWarm]_vars

\* the predicates a filters object sets, as the specification reads them
SatisfiesFilters(video, filters) ==
    /\ "min_views" \in DOMAIN filters => video.views >= filters.min_views
    /\ "max_duration" \in DOMAIN filters => video.duration <= filters.max_duration
    /\ "min_duration" \in DOMAIN filters => video.duration >= filters.min_duration
    /\ ("has_captions" \in DOMAIN filters /\ filters.has_captions) => video.has_captions
    /\ ("is_hd" \in DOMAIN filters /\ filters.is_hd) => video.is_hd

\* C12: every video search_videos returns satisfies every predicate set in
\* filters, whether it comes from the API, the search cache or the video cache.
C12_SearchResultsSatisfyFilters ==
    call.op = "search" =>
        \A i \in 1..Len(out.val) : SatisfiesFilters(out.val[i], call.filters)

\* the number of requests of `kind` among `reqs` that the API answered
Answered(reqs, kind) ==
    Cardinality({i \in 1..Len(reqs) : reqs[i].kind = kind /\ reqs[i].ok})

----------------------------------------------------------------------------
(* Claims about one generate_playlist call, under SpecCall *)

\* the items of the outcome `o` that belong to topic number k; the topics of
\* CallTopics have different identifiers
CallItemsOf(o, k) ==
    SelectSeq(o.val.items, LAMBDA item : item.topic_id = TopicGetId(topics[k]))

\* every other collaborator answers: the embedding provider for every topic, and
\* the ranking is done by the weighted ranker
OnlyRetrievalFails ==
    /\ ~ModelReached(ranker)
    /\ \A k \in 1..Len(topics) : responses[k].embed_ok

\* the identifiers the requests of topic k that went through returned
AnsweredIds(k) ==
    UNION {{responses[k].answers[q].videos[i].youtube_id :
               i \in 1..Len(responses[k].answers[q].videos)} :
           q \in {h \in 1..QueryCount : responses[k].answers[h].api = "ok"}}

\* C13: when the retrieval request of one query of a topic fails, search_videos
\* yields the empty list for that query and generate_playlist goes on with the
\* remaining queries of the topic and ranks what they return.
C13_FailedQueryLeavesOthers ==
    (~IsNone(earlier) /\ OnlyRetrievalFails)
        => /\ earlier.ok
           /\ \A k \in 1..Len(topics) :
                 (\E q \in 1..QueryCount : responses[k].answers[q].api = "fails")
                     => LET its == CallItemsOf(earlier, k)
                        IN  /\ Len(its) = Min2(videos_per_topic,
                                               Cardinality(AnsweredIds(k)))
                            /\ \A i \in 1..Len(its) :
                                  /\ its[i].video.youtube_id \in AnsweredIds(k)
                                  /\ its[i].rank = i
                            /\ \A i, j \in 1..Len(its) :
                                  i < j => its[i].score >= its[j].score

\* C13 witness: the first request of a topic failed, the second returned two
\* candidates, and both are in the playlist
C13_Witness ==
    /\ ~IsNone(earlier)
    /\ OnlyRetrievalFails
    /\ videos_per_topic = 2
    /\ \E k \in 1..Len(topics) :
          /\ responses[k].answers[1].api = "fails"
          /\ Len(responses[k].answers[2].videos) = 2
          /\ Len(CallItemsOf(earlier, k)) = 2

\* the deduplicated candidates of topic k are exactly VideoX and VideoY
CandidatesAreXY(k) ==
    LET unique == DeduplicateVideos(AllVideos(responses[k].answers, QueryCount))
    IN  {unique[i] : i \in 1..Len(unique)} = {VideoX, VideoY}

\* C15: with videos_per_topic = 1 and a topic whose deduplicated candidates are X
\* and Y, X with more views, more likes and a higher relevance and all else equal,
\* generate_playlist under the default weights (the weighted ranker ranking, the
\* embedding provider answering) returns one item for the topic: X with rank 1.
C15_BetterCandidateIsTheOneItem ==
    (/\ ~IsNone(earlier)
     /\ videos_per_topic = 1
     /\ ranker = RankingEnsembleInit(None, FALSE, "absent", USE_ML_RANKING)
     /\ \A k \in 1..Len(topics) : responses[k].embed_ok)
        => /\ earlier.ok
           /\ \A k \in 1..Len(topics) :
                 CandidatesAreXY(k)
                     => LET its == CallItemsOf(earlier, k)
                        IN  /\ Len(its) = 1
                            /\ its[1].video.youtube_id = "X"
                            /\ its[1].rank = 1

\* C15 witness: Y came first among the candidates of the topic and X is the item
C15_Witness ==
    /\ ~IsNone(earlier)
    /\ videos_per_topic = 1
    /\ ranker = RankingEnsembleInit(None, FALSE, "absent", USE_ML_RANKING)
    /\ earlier.ok
    /\ \E k \in 1..Len(topics) :
          /\ CandidatesAreXY(k)
          /\ AllVideos(responses[k].answers, QueryCount)[1] = VideoY
          /\ Len(CallItemsOf(earlier, k)) = 1
          /\ CallItemsOf(earlier, k)[1].video.youtube_id = "X"
          /\ CallItemsOf(earlier, k)[1].score > 0

----------------------------------------------------------------------------
(* QueryGenerator *)

\* A string the code takes apart is a sequence of one-character strings; a
\* template is the pair of the texts before and after {topic}.
TemplateLevels == {"beginner", "intermediate", "advanced", "practical"}

\* QueryGenerator.TEMPLATES[level]
Templates(level) ==
    CASE level = "beginner" ->
    <<<<"", " tutorial for beginners">>,
      <<"introduction to ", "">>,
      <<"", " explained simply">>,
      <<"learn ", " basics">>,
      <<"", " for dummies">>,
      <<"what is ", " simple explanation">>>>
      [] level = "intermediate" ->
    <<<<"", " tutorial">>,
      <<"", " explained">>,
      <<"", " course">>,
      <<"learn ", "">>,
      <<"", " guide">>,
      <<"understanding ", "">>>>
      [] level = "advanced" ->
    <<<<"", " advanced tutorial">>,
      <<"", " deep dive">>,
      <<"", " in depth">>,
      <<"advanced ", "">>,
      <<"", " research">>,
      <<"", " expert guide">>>>
      [] level = "practical" ->
    <<<<"", " examples">>,
      <<"", " hands on">>,
      <<"", " practical">>,
      <<"", " project">>,
      <<"how to use ", "">>,
      <<"", " implementation">>>>

\* template.format(topic=topic_clean)
Format(template, topic) ==
    (IF template[1] = "" THEN <<>> ELSE <<template[1]>>)
        \o topic
        \o (IF template[2] = "" THEN <<>> ELSE <<template[2]>>)

\* topic.startswith(prefix)
StartsWith(str, prefix) ==
    Len(str) >= Len(prefix) /\ SubSeq(str, 1, Len(prefix)) = prefix

\* str.lstrip(chars)
RECURSIVE LStrip(_, _)
LStrip(str, chars) ==
    IF Len(str) > 0 /\ Head(str) \in chars THEN LStrip(Tail(str), chars) ELSE str

\* str.rstrip(chars)
RECURSIVE RStrip(_, _)
RStrip(str, chars) ==
    IF Len(str) > 0 /\ str[Len(str)] \in chars
    THEN RStrip(SubSeq(str, 1, Len(str) - 1), chars)
    ELSE str

Whitespace == {" "}

\* the characters stripped after a prefix (line 148)
PrefixTail == {" ", ":", "0", "1", "2", "3", "4", "5", "6", "7", "8", "9", ".", "-"}

\* prefixes (line 144)
Prefixes == <<<<"U", "n", "i", "t">>,
              <<"M", "o", "d", "u", "l", "e">>,
              <<"C", "h", "a", "p", "t", "e", "r">>,
              <<"W", "e", "e", "k">>,
              <<"L", "e", "c", "t", "u", "r", "e">>,
              <<"T", "o", "p", "i", "c">>>>

\* the loop over the prefixes (lines 145-148) from prefix k on
RECURSIVE RemovePrefixes(_, _)
RemovePrefixes(topic, k) ==
    IF k > Len(Prefixes)
    THEN topic
    ELSE IF StartsWith(topic, Prefixes[k])
         THEN RemovePrefixes(LStrip(SubSeq(topic, Len(Prefixes[k]) + 1, Len(topic)),
                                    PrefixTail), k + 1)
         ELSE RemovePrefixes(topic, k + 1)

\* the longest cleaned topic kept whole (line 154)
TopicLimit == 60

\* QueryGenerator._clean_topic
CleanTopic(topic) ==
    LET unprefixed == RemovePrefixes(topic, 1)
        plain == SelectSeq(unprefixed, LAMBDA c : c \notin {":", ";"})
        cut == IF Len(plain) > TopicLimit
               THEN SubSeq(plain, 1, TopicLimit - 3) \o <<".", ".", ".">>
               ELSE plain
    IN  RStrip(LStrip(cut, Whitespace), Whitespace)

\* queries[:max_queries], max_queries >= 0
Slice(queries, max_queries) == SubSeq(queries, 1, Min2(max_queries, Len(queries)))

\* the loop over keywords[:2] (lines 85-88) from keyword k on
RECURSIVE AddKeywordQueries(_, _, _)
AddKeywordQueries(queries, keywords, k) ==
    IF k > Min2(2, Len(keywords))
    THEN queries
    ELSE LET query == keywords[k] \o <<" tutorial">>
         IN  IF \E i \in 1..Len(queries) : queries[i] = query
             THEN AddKeywordQueries(queries, keywords, k + 1)
             ELSE AddKeywordQueries(Append(queries, query), keywords, k + 1)

\* a generate_queries that returns `queries` without the final slice
GenerateQueriesUncut(topic, keywords, difficulty, max_queries, choice) ==
    LET topic_clean == CleanTopic(topic)
        templates == IF difficulty \in TemplateLevels
                     THEN Templates(difficulty)
                     ELSE Templates("intermediate")
        from_templates == [k \in 1..Min2(max_queries, Len(templates)) |->
                              Format(templates[k], topic_clean)]
        with_keywords == IF Len(keywords) > 0 /\ Len(from_templates) < max_queries
                         THEN AddKeywordQueries(from_templates, keywords, 1)
                         ELSE from_templates
    IN  IF Len(with_keywords) < max_queries
        THEN Append(with_keywords, Format(Templates("practical")[choice], topic_clean))
        ELSE with_keywords

\* QueryGenerator.generate_queries; `choice` is the index random.choice picks;
\* keywords None is the empty list
GenerateQueries(topic, keywords, difficulty, max_queries, choice) ==
    LET topic_clean == CleanTopic(topic)
        templates == IF difficulty \in TemplateLevels
                     THEN Templates(difficulty)
                     ELSE Templates("intermediate")
        from_templates == [k \in 1..Min2(max_queries, Len(templates)) |->
                              Format(templates[k], topic_clean)]
        with_keywords == IF Len(keywords) > 0 /\ Len(from_templates) < max_queries
                         THEN AddKeywordQueries(from_templates, keywords, 1)
                         ELSE from_templates
        queries == IF Len(with_keywords) < max_queries
                   THEN Append(with_keywords,
                               Format(Templates("practical")[choice], topic_clean))
                   ELSE with_keywords
    IN  Slice(queries, max_queries)

\* str.lower() on one character
LowerChar(c) ==
    CASE c = "A" -> "a"
      [] c = "B" -> "b"
      [] c = "C" -> "c"
      [] c = "D" -> "d"
      [] c = "E" -> "e"
      [] c = "F" -> "f"
      [] c = "G" -> "g"
      [] c = "H" -> "h"
      [] c = "I" -> "i"
      [] c = "J" -> "j"
      [] c = "K" -> "k"
      [] c = "L" -> "l"
      [] c = "M" -> "m"
      [] c = "N" -> "n"
      [] c = "O" -> "o"
      [] c = "P" -> "p"
      [] c = "Q" -> "q"
      [] c = "R" -> "r"
      [] c = "S" -> "s"
      [] c = "T" -> "t"
      [] c = "U" -> "u"
      [] c = "V" -> "v"
      [] c = "W" -> "w"
      [] c = "X" -> "x"
      [] c = "Y" -> "y"
      [] c = "Z" -> "z"
      [] OTHER -> c

\* str.lower()
Lower(str) == [i \in 1..Len(str) |-> LowerChar(str[i])]

\* sep.join(strs)
RECURSIVE Join(_, _)
Join(strs, sep) ==
    IF Len(strs) = 0
    THEN <<>>
    ELSE IF Len(strs) = 1
         THEN strs[1]
         ELSE strs[1] \o sep \o Join(Tail(strs), sep)

\* term in text
Contains(text, term) ==
    \E i \in 0..(Len(text) - Len(term)) : SubSeq(text, i + 1, i + Len(term)) = term

\* beginner_terms (lines 112-115)
BeginnerTerms ==
    <<<<"i", "n", "t", "r", "o", "d", "u", "c", "t", "i", "o", "n">>,
      <<"b", "a", "s", "i", "c", "s">>,
      <<"f", "u", "n", "d", "a", "m", "e", "n", "t", "a", "l", "s">>,
      <<"o", "v", "e", "r", "v", "i", "e", "w">>,
      <<"g", "e", "t", "t", "i", "n", "g", " ", "s", "t", "a", "r", "t", "e", "d">>,
      <<"f", "i", "r", "s", "t">>,
      <<"b", "a", "s", "i", "c">>,
      <<"s", "i", "m", "p", "l", "e">>>>

\* advanced_terms (lines 118-121)
AdvancedTerms ==
    <<<<"a", "d", "v", "a", "n", "c", "e", "d">>,
      <<"d", "e", "e", "p">>,
      <<"r", "e", "s", "e", "a", "r", "c", "h">>,
      <<"o", "p", "t", "i", "m", "i", "z", "a", "t", "i", "o", "n">>,
      <<"a", "r", "c", "h", "i", "t", "e", "c", "t", "u", "r", "e">>,
      <<"t", "h", "e", "o", "r", "y">>,
      <<"a", "l", "g", "o", "r", "i", "t", "h", "m">>,
      <<"c", "o", "m", "p", "l", "e", "x">>>>

\* any(term in text for term in terms)
AnyTermIn(terms, text) == \E k \in 1..Len(terms) : Contains(text, terms[k])

\* all_text (line 124); `given` is FALSE when keywords is None
AllText(topic, keywords, given) ==
    LET keywords_lower == IF given
                          THEN [k \in 1..Len(keywords) |-> Lower(keywords[k])]
                          ELSE <<>>
    IN  Lower(topic) \o <<" ">> \o Join(keywords_lower, <<" ">>)

\* a classify_difficulty that looks for the advanced terms first
ClassifyDifficultyAdvancedFirst(topic, keywords, given) ==
    LET all_text == AllText(topic, keywords, given)
    IN  IF AnyTermIn(AdvancedTerms, all_text)
        THEN "advanced"
        ELSE IF AnyTermIn(BeginnerTerms, all_text)
             THEN "beginner"
             ELSE "intermediate"

\* QueryGenerator.classify_difficulty; `given` is FALSE when keywords is None
ClassifyDifficulty(topic, keywords, given) ==
    LET all_text == AllText(topic, keywords, given)
    IN  IF AnyTermIn(BeginnerTerms, all_text)
        THEN "beginner"
        ELSE IF AnyTermIn(AdvancedTerms, all_text)
             THEN "advanced"
             ELSE "intermediate"

----------------------------------------------------------------------------
(* The pure functions, each called once on the arguments InitPure draws *)

\* longest duration drawn, in minutes
MaxMinutes == 65

\* durations in whole minutes: their penalties are whole thousandths
Durations == {60 * k : k \in 0..MaxMinutes}

\* the raw metric values handed to _normalize_log
MetricValues == {0, 1, 10, 1000}

\* largest max_queries asked of generate_queries
MaxQueriesAsked == 8

TitleSQL == <<"S", "Q", "L">>

TitleUnit == <<"U", "n", "i", "t", " ", "1", ":", " ", "S", "Q", "L">>

TitleLong == <<"a", "a", "a", "a", "a", "a", "a", "a", "a", "a", "a", "a", "a", "a", "a", "a", "a", "a", "a", "a", "a", "a", "a", "a", "a", "a", "a", "a", "a", "a", "a", "a", "a", "a", "a", "a", "a", "a", "a", "a", "a", "a", "a", "a", "a", "a", "a", "a", "a", "a", "a", "a", "a", "a", "a", "a", "a", "a", "a", "a", "a">>

Titles == {<<>>, TitleSQL, TitleUnit, TitleLong}

KeywordLists ==
    {<<>>, <<TitleSQL>>, <<<<"j", "o", "i", "n", "s">>, <<"S", "Q", "L">>>>,
     <<<<"j", "o", "i", "n", "s">>, <<"i", "n", "d", "e", "x">>, <<"v", "i", "e", "w", "s">>>>}

Difficulties == TemplateLevels \cup {"expert"}

TitleModuleUnit == <<"M", "o", "d", "u", "l", "e", " ", "1", ":", " ", "U", "n", "i", "t", " ", "2", " ", "S", "Q", "L">>

TitleUnitModule == <<"U", "n", "i", "t", " ", "1", ":", " ", "M", "o", "d", "u", "l", "e", " ", "2", " ", "S", "Q", "L">>

TitleTopic == <<"T", "o", "p", "i", "c", " ", "3", " ", "-", " ", "J", "o", "i", "n", "s">>

\* titles handed to _clean_topic
CleanTitles == Titles \cup {TitleModuleUnit, TitleUnitModule, TitleTopic}

TitleAdvancedBasics == <<"A", "d", "v", "a", "n", "c", "e", "d", " ", "S", "Q", "L", " ", "B", "a", "s", "i", "c", "s">>

TitleDeep == <<"D", "e", "e", "p", " ", "L", "e", "a", "r", "n", "i", "n", "g">>

TitleGetting == <<"G", "e", "t", "t", "i", "n", "g">>

\* titles handed to classify_difficulty
ClassifyTitles == {<<>>, TitleSQL, TitleAdvancedBasics, TitleDeep, TitleGetting}

\* keyword lists handed to classify_difficulty
ClassifyKeywords ==
    {<<>>, <<<<"T", "h", "e", "o", "r", "y">>>>, <<<<"S", "t", "a", "r", "t", "e", "d">>, <<"S", "I", "M", "P", "L", "E">>>>, <<<<"j", "o", "i", "n", "s">>, <<"i", "n", "d", "e", "x">>>>}

\* upload dates handed to _compute_recency: up to two years before the call and
\* one year after it
UploadDates == {0, 365, 730, 1095}

PureInputs ==
    {[fn |-> "duration_penalty", durations |-> d] : d \in Durations \X Durations}
    \cup {[fn |-> "normalize_log", values |-> v] : v \in SeqsUpTo(MetricValues, MaxVideos)}
    \cup {[fn |-> "generate_queries", topic |-> t, keywords |-> k, difficulty |-> d,
            max_queries |-> m] :
            t \in Titles, k \in KeywordLists, d \in Difficulties, m \in 0..MaxQueriesAsked}
    \cup {[fn |-> "batch_relevance", topic |-> t, videos |-> v, embed_ok |-> e] :
            t \in TopicPool, v \in SeqsUpTo(PlaylistPool, 2), e \in BOOLEAN}
    \cup {[fn |-> "classify_difficulty", topic |-> t, keywords |-> k, given |-> g] :
            t \in ClassifyTitles, k \in ClassifyKeywords, g \in BOOLEAN}
    \cup {[fn |-> "recency", upload_date |-> d] : d \in UploadDates}
    \cup {[fn |-> "clean_topic", topic |-> t] : t \in CleanTitles}

InitPure ==
    /\ PlaylistIdle
    /\ RouteIdle
    /\ HarnessIdle
    /\ now \in NowValues
    /\ responses = <<>>
    /\ earlier = None
    /\ input \in PureInputs
    /\ redis = <<>>
    /\ ServiceIdle

\* _compute_duration_penalty(d) for each of the two durations drawn
DurationPenaltyCall ==
    /\ input.fn = "duration_penalty"
    /\ IsNone(out)
    /\ out' = Ok([i \in 1..2 |-> ComputeDurationPenalty(input.durations[i])])
    /\ UNCHANGED <<now, videos, relevance_scores, call, playlist_vars, route_vars, ext_vars>>

\* _normalize_log(values)
NormalizeLogCall ==
    /\ input.fn = "normalize_log"
    /\ IsNone(out)
    /\ out' = Ok(NormalizeLog(input.values))
    /\ UNCHANGED <<now, videos, relevance_scores, call, playlist_vars, route_vars, ext_vars>>

\* generate_queries(topic, keywords, difficulty, max_queries)
GenerateQueriesCall ==
    /\ input.fn = "generate_queries"
    /\ IsNone(out)
    /\ \E choice \in 1..NumTemplates :
          out' = Ok(GenerateQueries(input.topic, input.keywords, input.difficulty,
                                    input.max_queries, choice))
    /\ UNCHANGED <<now, videos, relevance_scores, call, playlist_vars, route_vars, ext_vars>>

\* compute_batch_relevance(topic, videos)
ComputeBatchRelevanceCall ==
    /\ input.fn = "batch_relevance"
    /\ IsNone(out)
    /\ out' = ComputeBatchRelevanceTrace(input.topic, input.videos, input.embed_ok)
    /\ UNCHANGED <<now, videos, relevance_scores, call, playlist_vars, route_vars, ext_vars>>

\* generate_queries called a second time with the same arguments
GenerateQueriesAgain ==
    /\ input.fn = "generate_queries"
    /\ ~IsNone(out)
    /\ IsNone(earlier)
    /\ earlier' = out
    /\ \E choice \in 1..NumTemplates :
          out' = Ok(GenerateQueries(input.topic, input.keywords, input.difficulty,
                                    input.max_queries, choice))
    /\ UNCHANGED <<now, videos, relevance_scores, call, playlist_vars, route_vars,
                   responses, input, search_vars, limit_vars>>

\* classify_difficulty(topic, keywords)
ClassifyDifficultyCall ==
    /\ input.fn = "classify_difficulty"
    /\ IsNone(out)
    /\ out' = Ok(ClassifyDifficulty(input.topic, input.keywords, input.given))
    /\ UNCHANGED <<now, videos, relevance_scores, call, playlist_vars, route_vars, ext_vars>>

\* _compute_recency(upload_date)
ComputeRecencyCall ==
    /\ input.fn = "recency"
    /\ IsNone(out)
    /\ out' = Ok(ComputeRecency(input.upload_date, now))
    /\ UNCHANGED <<now, videos, relevance_scores, call, playlist_vars, route_vars, ext_vars>>

\* _clean_topic(topic)
CleanTopicCall ==
    /\ input.fn = "clean_topic"
    /\ IsNone(out)
    /\ out' = Ok(CleanTopic(input.topic))
    /\ UNCHANGED <<now, videos, relevance_scores, call, playlist_vars, route_vars, ext_vars>>

NextPure ==
    \/ DurationPenaltyCall
    \/ NormalizeLogCall
    \/ GenerateQueriesCall
    \/ ComputeBatchRelevanceCall
    \/ GenerateQueriesAgain
    \/ ClassifyDifficultyCall
    \/ ComputeRecencyCall
    \/ CleanTopicCall

SpecPure == InitPure /\ [][NextPure]_vars

----------------------------------------------------------------------------
(* Claims about the pure functions, under SpecPure *)

\* the penalties of the durations d1 < d2, one of them at least outside the band,
\* have been computed
PenaltiesComputed ==
    /\ input.fn = "duration_penalty"
    /\ ~IsNone(out)

\* C16 as the specification states it: the penalty is 0 on [300, 1200] and
\* strictly increases with the distance from the band, on either side.
C16_PenaltyStrictlyIncreasing ==
    PenaltiesComputed
        => LET d1 == input.durations[1]
               d2 == input.durations[2]
               p1 == out.val[1]
               p2 == out.val[2]
           IN  /\ (300 <= d1 /\ d1 <= 1200) => p1 = 0
               /\ (d1 < d2 /\ d2 < 300) => p1 > p2
               /\ (1200 < d1 /\ d1 < d2) => p2 > p1

\* C16, amended: the penalty is 0 on [300, 1200], strictly increases as the
\* duration falls below 300, strictly increases above 1200 up to 3600, and is
\* 1.0 from 3600 on.
C16_PenaltyIncreasingUpToOneHour ==
    PenaltiesComputed
        => LET d1 == input.durations[1]
               d2 == input.durations[2]
               p1 == out.val[1]
               p2 == out.val[2]
           IN  /\ (300 <= d1 /\ d1 <= 1200) => p1 = 0
               /\ (d1 < d2 /\ d2 < 300) => p1 > p2
               /\ (1200 < d1 /\ d1 < d2 /\ d1 < 3600) => p2 > p1
               /\ d1 >= 3600 => p1 = 1000
               /\ d1 = 0 => p1 = 1000

\* C16 witness: penalties grow between 20 minutes and the hour, and stay at 1.0
\* beyond
C16_Witness ==
    /\ PenaltiesComputed
    /\ input.durations = <<3540, 3660>>
    /\ out.val[1] < out.val[2]
    /\ out.val[2] = 1000

\* C17: _normalize_log returns as many values as it is given, each in [0, 1]; all
\* 0 when the input is empty or its largest raw value is 0; all exactly 0.5 when
\* the largest raw value is positive and all the log(max(v, 1)) are equal.
C17_NormalizeLogEdgeCases ==
    (input.fn = "normalize_log" /\ ~IsNone(out))
        => LET values == input.values
               normalized == out.val
               n == Len(values)
           IN  /\ Len(normalized) = n
               /\ \A i \in 1..n : 0 <= normalized[i] /\ normalized[i] <= 1000
               /\ (n = 0 \/ \A i \in 1..n : values[i] <= 0)
                     => \A i \in 1..n : normalized[i] = 0
               /\ ((\E i \in 1..n : values[i] > 0)
                      /\ \A i, j \in 1..n : Max2(values[i], 1) = Max2(values[j], 1))
                     => \A i \in 1..n : normalized[i] = 500

\* C17 witness: the values 0 and 1 have the same logarithm after max(v, 1)
C17_Witness ==
    /\ input.fn = "normalize_log"
    /\ ~IsNone(out)
    /\ input.values = <<0, 1>>
    /\ out.val = <<500, 500>>

\* C18: for every title, keyword list, difficulty (known or not) and
\* max_queries >= 0, generate_queries returns at most max_queries queries.
C18_AtMostMaxQueries ==
    (input.fn = "generate_queries" /\ ~IsNone(out))
        => Len(out.val) <= input.max_queries

\* C18 witness: an unknown difficulty, two keywords and room for seven queries:
\* six templates and two keyword queries are cut to seven
C18_Witness ==
    /\ input.fn = "generate_queries"
    /\ ~IsNone(out)
    /\ input.difficulty = "expert"
    /\ Len(input.keywords) = 2
    /\ input.max_queries = 7
    /\ Len(out.val) = 7

\* C19: compute_batch_relevance on an empty candidate list returns the empty list
\* and makes no call of the embedding provider's encode.
C19_EmptyBatchMakesNoEncodeCall ==
    (input.fn = "batch_relevance" /\ ~IsNone(out) /\ input.videos = <<>>)
        => /\ out.ret = Ok(<<>>)
           /\ out.encode_calls = 0

\* C19 witness: the empty list was scored while the embedding provider was down
C19_Witness ==
    /\ input.fn = "batch_relevance"
    /\ ~IsNone(out)
    /\ input.videos = <<>>
    /\ ~input.embed_ok
    /\ out.ret.ok

\* C24: two calls of generate_queries with the same title, keywords, difficulty and
\* max_queries return the same list of queries, for every max_queries including
\* values larger than the number of template and keyword queries available (where
\* the practical variant is appended).
C24_GenerateQueriesDeterministic ==
    (input.fn = "generate_queries" /\ ~IsNone(earlier)) => out = earlier

\* the case-folded title-plus-keywords text of the call contains one of `terms`
TextHasOneOf(terms) ==
    \E k \in 1..Len(terms) :
       Contains(AllText(input.topic, input.keywords, input.given), terms[k])

\* C25: classify_difficulty returns exactly one of beginner, intermediate, advanced
\* for every title and keyword list (keywords absent included): beginner whenever
\* the case-folded title-plus-keywords text contains a beginner term, even if it
\* also contains an advanced term; advanced when it contains an advanced term and
\* no beginner term; intermediate otherwise.
C25_ClassifyDifficultyPriority ==
    (input.fn = "classify_difficulty" /\ ~IsNone(out))
        => /\ out.ok
           /\ out.val \in {"beginner", "intermediate", "advanced"}
           /\ out.val = "beginner" <=> TextHasOneOf(BeginnerTerms)
           /\ out.val = "advanced"
                 <=> (TextHasOneOf(AdvancedTerms) /\ ~TextHasOneOf(BeginnerTerms))
           /\ out.val = "intermediate"
                 <=> (~TextHasOneOf(AdvancedTerms) /\ ~TextHasOneOf(BeginnerTerms))

\* C25 witness: a text with a beginner and an advanced term was classified beginner
C25_Witness ==
    /\ input.fn = "classify_difficulty"
    /\ ~IsNone(out)
    /\ TextHasOneOf(AdvancedTerms)
    /\ TextHasOneOf(BeginnerTerms)
    /\ out.val = "beginner"

\* C26: for every upload date, one later than the current time included, the
\* recency score _compute_recency computes lies in [0, 1], and it is 1.0 when the
\* upload is 0 days old.
C26_RecencyInUnitInterval ==
    (input.fn = "recency" /\ ~IsNone(out))
        => /\ 0 <= out.val /\ out.val <= 1000
           /\ (now - input.upload_date = 0) => out.val = 1000

\* `str` begins with one of the known prefixes followed by numbering
BeginsWithNumberedPrefix(str) ==
    \E k \in 1..Len(Prefixes) :
       /\ StartsWith(str, Prefixes[k])
       /\ LET rest == LStrip(SubSeq(str, Len(Prefixes[k]) + 1, Len(str)),
                             {" ", ":", ".", "-"})
          IN  Len(rest) > 0 /\ Head(rest) \in {"0", "1", "2", "3", "4", "5", "6", "7", "8", "9"}

\* C27: for every title, the string _clean_topic returns does not begin with any of
\* the known prefixes Unit, Module, Chapter, Week, Lecture, Topic followed by
\* numbering, whatever order such prefixes appear in the title.
C27_CleanTopicRemovesEveryPrefix ==
    (input.fn = "clean_topic" /\ ~IsNone(out)) => ~BeginsWithNumberedPrefix(out.val)

----------------------------------------------------------------------------
(* YouTubeService._rate_limit under concurrent callers.  The route module    *)
(* holds one PlaylistGenerator, hence one YouTubeService (playlists.py:19);  *)
(* process_playlist_generation is a plain def that BackgroundTasks runs on   *)
(* worker threads, so the tasks of two HTTP requests run generate_playlist   *)
(* on that service at the same time.  _rate_limit takes no lock: a thread    *)
(* may be preempted between any two of its statements.                       *)

\* latest time the clock reaches, in tenths of a second
MaxClock == 6

\* most requests one thread makes
MaxCallerRequests == 2

\* the threads that run generate_playlist on the shared service
Callers == {"t1", "t2"}

InitThrottle ==
    /\ PlaylistIdle
    /\ RouteIdle
    /\ HarnessIdle
    /\ now \in NowValues
    /\ responses = <<>>
    /\ earlier = None
    /\ input = None
    /\ redis = <<>>
    /\ quota_used = 0
    /\ last_request_time = 0
    /\ clock = MinRequestInterval
    /\ callers = [t \in Callers |-> [pc |-> "idle", wake |-> 0, made |-> 0]]
    /\ requests = <<>>

\* thread t enters _rate_limit: lines 270-273
RateLimitCheck(t) ==
    /\ callers[t].pc = "idle"
    /\ callers[t].made < MaxCallerRequests
    /\ LET current_time == clock
           time_since_last == current_time - last_request_time
       IN  callers' = [callers EXCEPT ![t] =
                          IF time_since_last < MinRequestInterval
                          THEN [@ EXCEPT !.pc = "sleeping",
                                         !.wake = clock + (MinRequestInterval
                                                              - time_since_last)]
                          ELSE [@ EXCEPT !.pc = "awake"]]
    /\ UNCHANGED <<now, harness_vars, playlist_vars, route_vars, call_vars, input,
                   search_vars, requests>>

\* time.sleep (line 274) returns in thread t once the time asked for has passed
RateLimitSleep(t) ==
    /\ callers[t].pc = "sleeping"
    /\ clock >= callers[t].wake
    /\ callers' = [callers EXCEPT ![t].pc = "awake"]
    /\ UNCHANGED <<now, harness_vars, playlist_vars, route_vars, call_vars, input,
                   search_vars, requests>>

\* thread t stores the time (line 276), returns and issues its API request
RateLimitReturn(t) ==
    /\ callers[t].pc = "awake"
    /\ last_request_time' = clock
    /\ requests' = Append(requests, [caller |-> t, at |-> clock])
    /\ callers' = [callers EXCEPT ![t].pc = "idle", ![t].made = @ + 1]
    /\ UNCHANGED <<now, harness_vars, playlist_vars, route_vars, call_vars, input,
                   redis, quota_used, clock>>

\* a tenth of a second passes
Tick ==
    /\ clock < MaxClock
    /\ clock' = clock + 1
    /\ UNCHANGED <<now, harness_vars, playlist_vars, route_vars, call_vars, input,
                   redis, quota_used, last_request_time, limit_vars>>

NextThrottle ==
    \/ \E t \in Callers : RateLimitCheck(t)
    \/ \E t \in Callers : RateLimitSleep(t)
    \/ \E t \in Callers : RateLimitReturn(t)
    \/ Tick

SpecThrottle == InitThrottle /\ [][NextThrottle]_vars

\* C21: when several callers use the same YouTubeService concurrently, any two API
\* requests that pass through _rate_limit are separated by at least
\* min_request_interval; no interleaving lets two requests proceed less than that
\* interval apart.
C21_RequestsSpacedByInterval ==
    \A i, j \in 1..Len(requests) :
        i < j => requests[j].at - requests[i].at >= MinRequestInterval

====
